---- MODULE Spec2Model ----
(***************************************************************************)
(* auto-kubernetes-client: the discovery-driven client builder (connect,   *)
(* createApi, createApiFromResources), the request primitive k8sRequest    *)
(* with its Status translation, calculateApiName, and the watch decoder    *)
(* parseJSONStream.                                                        *)
(*                                                                         *)
(* JavaScript strings and Buffers are sequences of one-character strings;  *)
(* JavaScript objects are functions from keys to values.  Indices of       *)
(* Buffers and strings are 0-based as in the source (Slice, IndexOfFrom).  *)
(***************************************************************************)
EXTENDS Integers, Sequences, FiniteSets, TLC

VARIABLES
    \* ---- watch decoder (createResourceCollection.watch) ----
    chunks,        \* the chunks the transport has written to parseJSONStream so far
    buffer,        \* let buffer       (part_000:144)
    bufferLength,  \* let bufferLength (part_000:145)
    pushed,        \* what parseJSONStream.push() has delivered, in order
    wstatus,       \* "open" | "failed" (JSON.parse threw) | "ended" (flush called back)
    inputEnded,    \* the transport has ended the stream
    \* ---- one resource operation (createResourceCollection / createResource) ----
    config,        \* the config given to connect
    handle,        \* the collection or single-resource handle in use
    optionCalls,   \* how many times options() was called to obtain it
    call,          \* the operation last called on it, with its arguments
    inflight,      \* the request handed to the transport and not answered yet
    response,      \* what the transport passed to the callback of the last request
    promise,       \* the promise the operation returned
    \* ---- one API surface (createApiFromResources) ----
    apiResources,  \* the APIResourceList the server answered for the group-version
    surface,       \* the api object built from it, with what its closures hold
    nsResult,      \* the namespace and the result of the last api.ns(namespace)
    resourceResult, \* the kind and the result of the last api.resource(kind)
    \* ---- connect ----
    pc,            \* where the promise chain of connect stands
    issued,        \* the requests connect has handed to the transport, in order
    rootResponse,  \* what the transport passed to the callback of the 'apis' request
    builds,        \* the createApi calls of connect, in the order of apiPromises
    connectPromise, \* the promise connect returned
    lookup,        \* the arguments and the outcome of the last client.group() call
    \* ---- several watch streams at once ----
    streams,       \* per watch() call: chunks written, items pushed, status, ended
    buffers        \* the buffer / bufferLength bindings the watch() calls created

watchVars == <<chunks, buffer, bufferLength, pushed, wstatus, inputEnded>>

requestVars == <<config, handle, optionCalls, call, inflight, response, promise>>

buildVars == <<apiResources, surface, nsResult, resourceResult>>

connectVars == <<pc, issued, rootResponse, builds, connectPromise, lookup>>

streamVars == <<streams, buffers>>

vars == <<chunks, buffer, bufferLength, pushed, wstatus, inputEnded,
          config, handle, optionCalls, call, inflight, response, promise,
          apiResources, surface, nsResult, resourceResult,
          pc, issued, rootResponse, builds, connectPromise, lookup,
          streams, buffers>>

\* Each specification below runs one part of the client and leaves the state
\* of the other parts as it is before they are used.
Nothing == <<>>

WatchIdle ==
    /\ chunks = <<>> /\ buffer = <<>> /\ bufferLength = 0
    /\ pushed = <<>> /\ wstatus = "open" /\ inputEnded = FALSE

RequestIdle ==
    /\ config = Nothing /\ handle = Nothing /\ optionCalls = 0 /\ call = Nothing
    /\ inflight = Nothing /\ response = Nothing /\ promise = Nothing

BuildIdle ==
    /\ apiResources = Nothing /\ surface = Nothing
    /\ nsResult = Nothing /\ resourceResult = Nothing

ConnectIdle ==
    /\ pc = "Disconnected" /\ issued = <<>> /\ rootResponse = Nothing
    /\ builds = <<>> /\ connectPromise = Nothing /\ lookup = Nothing

StreamsIdle == streams = <<>> /\ buffers = <<>>

notWatchVars == <<requestVars, buildVars, connectVars, streamVars>>
notRequestVars == <<watchVars, buildVars, connectVars, streamVars>>
notBuildVars == <<watchVars, requestVars, connectVars, streamVars>>
notStreamVars == <<watchVars, requestVars, buildVars, connectVars>>
\* connect takes config; it uses no other state of the parts above
notConnectVars == <<watchVars, buildVars, streamVars,
                    handle, optionCalls, call, inflight, response, promise>>

----------------------------------------------------------------------------
(* Bounds *)

MaxStreamLen == 5   \* bytes a watch stream carries in all
MaxChunks == 3      \* chunks (empty ones included) a watch stream is cut into
MaxOptionsCalls == 2 \* options() calls chained on one handle
MaxResources == 2   \* resources an APIResourceList holds
MaxStreams == 2     \* watch streams open at the same time
MaxWrites == 4      \* chunks the transport writes to all of them together

----------------------------------------------------------------------------
(* Sequences as JavaScript strings / Buffers *)

\* s.slice(a, b) / s.substring(a, b): the elements at 0-based a .. b-1
Slice(s, a, b) == SubSeq(s, a + 1, b)

\* s.indexOf(c, start): 0-based index of the first c at or after start, or -1
IndexOfFrom(s, c, start) ==
    LET hits == {i \in start..(Len(s) - 1) : s[i + 1] = c}
    IN  IF hits = {} THEN -1
        ELSE CHOOSE i \in hits : \A j \in hits : i <= j

RECURSIVE SeqsUpTo(_, _)
\* all sequences over S of length at most n
SeqsUpTo(S, n) ==
    IF n = 0 THEN {<<>>}
    ELSE LET shorter == SeqsUpTo(S, n - 1)
         IN  shorter \cup {Append(s, x) : s \in {t \in shorter : Len(t) = n - 1}, x \in S}

RECURSIVE Concat(_)
\* the concatenation of a sequence of sequences
Concat(ss) == IF ss = <<>> THEN <<>> ELSE Head(ss) \o Concat(Tail(ss))

----------------------------------------------------------------------------
(* The bytes of a watch stream and JSON.parse *)

NL == "\n"
WS == " "
Digits == {"1"}
Garbage == "x"      \* any byte that cannot occur in the JSON texts of this alphabet
Bytes == Digits \cup {WS, Garbage, NL}

DigitValue(d) == CASE d = "1" -> 1

RECURSIVE NumberValue(_)
\* the number a non-empty digit string denotes
NumberValue(ds) ==
    IF Len(ds) = 1 THEN DigitValue(ds[1])
    ELSE 10 * NumberValue(SubSeq(ds, 1, Len(ds) - 1)) + DigitValue(ds[Len(ds)])

RECURSIVE TrimLeft(_)
TrimLeft(s) == IF s # <<>> /\ Head(s) = WS THEN TrimLeft(Tail(s)) ELSE s

RECURSIVE TrimRight(_)
TrimRight(s) ==
    IF s # <<>> /\ s[Len(s)] = WS THEN TrimRight(SubSeq(s, 1, Len(s) - 1)) ELSE s

\* JSON.parse(text): a JSON text is one value with optional white space around
\* it; the values of this alphabet are the numbers.  Anything else (the empty
\* text, white space alone, two values, a garbage byte) is a SyntaxError.
JSONParse(text) ==
    LET body == TrimRight(TrimLeft(text))
    IN  IF body # <<>> /\ \A i \in 1..Len(body) : body[i] \in Digits
        THEN [ok |-> TRUE, value |-> NumberValue(body)]
        ELSE [ok |-> FALSE, value |-> 0]

----------------------------------------------------------------------------
(* The watch decoder: parseJSONStream of createResourceCollection.watch *)

\* What the readable side of parseJSONStream delivers: a decoded event, tagged
\* with the 1-based number of the chunk whose processing pushed it (0: the
\* flush), or the end of the stream (through2 pushes it when flush calls back).
DataItem(v, no) == [kind |-> "data", value |-> v, chunk |-> no]
EndItem == [kind |-> "end", value |-> 0, chunk |-> 0]

\* let buffer = Buffer.alloc(0); let bufferLength = 0;
NewDecoder == [buffer |-> <<>>, bufferLength |-> 0, pushed |-> <<>>, status |-> "open"]

\* const contents = Buffer.alloc(bufferLength + newlineIndex - startIndex);
\* buffer.copy(contents, 0, 0, bufferLength);
\* chunk.copy(contents, bufferLength, startIndex, newlineIndex);
LineContents(d, chunk, startIndex, newlineIndex) ==
    Slice(d.buffer, 0, d.bufferLength) \o Slice(chunk, startIndex, newlineIndex)

\* EmitLine without the reset of bufferLength after the buffer was used
EmitLineKeepBuffer(d, contents, no) ==
    LET r == JSONParse(contents)
    IN  IF r.ok
        THEN [d EXCEPT !.pushed = Append(@, DataItem(r.value, no))]
        ELSE [d EXCEPT !.status = "failed"]

\* EmitLine with the SyntaxError caught and the bad line skipped
EmitLineSkipBad(d, contents, no) ==
    LET r == JSONParse(contents)
    IN  IF r.ok
        THEN [d EXCEPT !.pushed = Append(@, DataItem(r.value, no)),
                       !.bufferLength = IF @ > 0 THEN 0 ELSE @]
        ELSE [d EXCEPT !.bufferLength = 0]

\* parseJSONStream.push(JSON.parse(contents.toString('UTF-8')));
\* if (bufferLength > 0) { bufferLength = 0; }
\* A SyntaxError of JSON.parse leaves the handler at once: nothing is pushed,
\* bufferLength keeps its value and callback() is never called.
EmitLine(d, contents, no) ==
    LET r == JSONParse(contents)
    IN  IF r.ok
        THEN [d EXCEPT !.pushed = Append(@, DataItem(r.value, no)),
                       !.bufferLength = IF @ > 0 THEN 0 ELSE @]
        ELSE [d EXCEPT !.status = "failed"]

\* KeepRest that replaces the buffer by the rest of the chunk instead of
\* appending the rest to it
KeepRestReplace(d, restData) ==
    [d EXCEPT !.buffer = restData, !.bufferLength = Len(restData)]

\* KeepRest that counts the rest in without copying it into the buffer it reuses
KeepRestNoCopy(d, restData) ==
    IF d.bufferLength + Len(restData) < Len(d.buffer)
    THEN [d EXCEPT !.bufferLength = @ + Len(restData)]
    ELSE LET nb == IF d.bufferLength = 0 THEN restData
                   ELSE Slice(d.buffer, 0, d.bufferLength) \o restData
         IN  [d EXCEPT !.buffer = nb, !.bufferLength = Len(nb)]

\* const restData = chunk.slice(startIndex);  and the if/else that keeps it
KeepRest(d, restData) ==
    IF d.bufferLength + Len(restData) < Len(d.buffer)
    THEN \* restData.copy(buffer, bufferLength); bufferLength += restData.length;
         [d EXCEPT !.buffer = [i \in 1..Len(d.buffer) |->
                                  IF i > d.bufferLength /\ i <= d.bufferLength + Len(restData)
                                  THEN restData[i - d.bufferLength] ELSE d.buffer[i]],
                   !.bufferLength = @ + Len(restData)]
    ELSE \* buffer = bufferLength === 0 ? restData : Buffer.concat([...]);
         LET nb == IF d.bufferLength = 0 THEN restData
                   ELSE Slice(d.buffer, 0, d.bufferLength) \o restData
         IN  [d EXCEPT !.buffer = nb, !.bufferLength = Len(nb)]

RECURSIVE TransformLoop(_, _, _, _)
\* while ((newlineIndex = chunk.indexOf('\n', startIndex)) !== -1) { ... }
\* followed by the handling of the rest and callback()
TransformLoop(d, chunk, startIndex, no) ==
    LET newlineIndex == IndexOfFrom(chunk, NL, startIndex)
    IN  IF newlineIndex # -1
        THEN LET d2 == EmitLine(d, LineContents(d, chunk, startIndex, newlineIndex), no)
             IN  IF d2.status = "failed" THEN d2
                 ELSE TransformLoop(d2, chunk, newlineIndex + 1, no)
        ELSE KeepRest(d, Slice(chunk, startIndex, Len(chunk)))

\* the transform function given to through2.obj
Transform(d, chunk, no) == TransformLoop(d, chunk, 0, no)

\* Flush that signals completion without decoding the residual
FlushNoPush(d) == [d EXCEPT !.pushed = Append(@, EndItem), !.status = "ended"]

\* the flush function given to through2.obj
Flush(d) ==
    LET r == JSONParse(Slice(d.buffer, 0, d.bufferLength))
    IN  IF d.bufferLength > 0
        THEN IF r.ok
             THEN [d EXCEPT !.pushed = @ \o <<DataItem(r.value, 0), EndItem>>,
                            !.bufferLength = 0,
                            !.status = "ended"]
             ELSE [d EXCEPT !.status = "failed"]
        ELSE [d EXCEPT !.pushed = Append(@, EndItem), !.status = "ended"]

Decoder == [buffer |-> buffer, bufferLength |-> bufferLength,
            pushed |-> pushed, status |-> wstatus]

SetDecoder(d) ==
    /\ buffer' = d.buffer
    /\ bufferLength' = d.bufferLength
    /\ pushed' = d.pushed
    /\ wstatus' = d.status

Fed == Concat(chunks)

WatchInit ==
    /\ chunks = <<>>
    /\ buffer = NewDecoder.buffer
    /\ bufferLength = NewDecoder.bufferLength
    /\ pushed = NewDecoder.pushed
    /\ wstatus = NewDecoder.status
    /\ inputEnded = FALSE
    /\ RequestIdle /\ BuildIdle /\ ConnectIdle /\ StreamsIdle

\* streamK8sRequest(...).pipe(parseJSONStream): the transport writes a chunk
WriteChunk ==
    /\ ~inputEnded
    /\ wstatus = "open"
    /\ Len(chunks) < MaxChunks
    /\ \E chunk \in SeqsUpTo(Bytes, MaxStreamLen - Len(Fed)) :
        /\ chunks' = Append(chunks, chunk)
        /\ SetDecoder(Transform(Decoder, chunk, Len(chunks) + 1))
        /\ UNCHANGED <<inputEnded, notWatchVars>>

\* A chunk written after JSON.parse threw: callback() of the failed write was
\* never called, so the stream holds the chunk and does not call transform.
WriteAfterFailure ==
    /\ ~inputEnded
    /\ wstatus = "failed"
    /\ Len(chunks) < MaxChunks
    /\ \E chunk \in SeqsUpTo(Bytes, MaxStreamLen - Len(Fed)) :
        /\ chunks' = Append(chunks, chunk)
        /\ UNCHANGED <<buffer, bufferLength, pushed, wstatus, inputEnded, notWatchVars>>

\* the transport ends the stream: flush runs once the last write has called back
EndStream ==
    /\ ~inputEnded
    /\ wstatus = "open"
    /\ inputEnded' = TRUE
    /\ SetDecoder(Flush(Decoder))
    /\ UNCHANGED <<chunks, notWatchVars>>

\* the transport ends a stream whose decoder has failed: flush is never run
EndAfterFailure ==
    /\ ~inputEnded
    /\ wstatus = "failed"
    /\ inputEnded' = TRUE
    /\ UNCHANGED <<chunks, buffer, bufferLength, pushed, wstatus, notWatchVars>>

WatchNext == WriteChunk \/ WriteAfterFailure \/ EndStream \/ EndAfterFailure

SpecWatch == WatchInit /\ [][WatchNext]_vars

----------------------------------------------------------------------------
(* Reference reading of a byte stream as newline-delimited JSON *)

RECURSIVE SplitLines(_)
\* the newline-terminated lines of s, in order, without their newlines
SplitLines(s) ==
    LET i == IndexOfFrom(s, NL, 0)
    IN  IF i = -1 THEN <<>>
        ELSE <<Slice(s, 0, i)>> \o SplitLines(Slice(s, i + 1, Len(s)))

RECURSIVE Residual(_)
\* the bytes of s after its last newline (all of s if it has none)
Residual(s) ==
    LET i == IndexOfFrom(s, NL, 0)
    IN  IF i = -1 THEN s ELSE Residual(Slice(s, i + 1, Len(s)))

\* the 1-based position in s of the newline that ends its k-th line
NewlinePosition(s, k) ==
    CHOOSE p \in 1..Len(s) :
        /\ s[p] = NL
        /\ Cardinality({q \in 1..p : s[q] = NL}) = k

\* the 1-based number of the chunk that holds position p of the stream
ChunkOfPosition(p) ==
    CHOOSE k \in 1..Len(chunks) :
        /\ Len(Concat(SubSeq(chunks, 1, k))) >= p
        /\ Len(Concat(SubSeq(chunks, 1, k - 1))) < p

AllLinesValid(s) == \A k \in 1..Len(SplitLines(s)) : JSONParse(SplitLines(s)[k]).ok

\* the 1-based number of the first line of s that is not a JSON text (0: none)
FirstBadLine(s) ==
    LET bad == {k \in 1..Len(SplitLines(s)) : ~JSONParse(SplitLines(s)[k]).ok}
    IN  IF bad = {} THEN 0 ELSE CHOOSE k \in bad : \A j \in bad : k <= j

\* the event of each of the first n lines, tagged with the chunk that holds
\* the line's newline
LineItems(n) ==
    [k \in 1..n |-> DataItem(JSONParse(SplitLines(Fed)[k]).value,
                             ChunkOfPosition(NewlinePosition(Fed, k)))]

\* what was delivered, without the chunk tags
Untagged(items) == [k \in 1..Len(items) |-> [kind |-> items[k].kind, value |-> items[k].value]]

----------------------------------------------------------------------------
(* Claims about the watch decoder *)

\* C1: chunk-boundary independence.  However the bytes fed so far were cut
\* into chunks (empty chunks and cuts inside a line included), the decoder has
\* delivered the same events and is in the same state (open, failed, ended) as
\* a decoder that was given the same bytes as one single chunk, and the same
\* again once the stream has been ended.
C1_ChunkBoundaryIndependence ==
    LET one == Transform(NewDecoder, Fed, 1)
        ref == IF inputEnded /\ one.status = "open" THEN Flush(one) ELSE one
    IN  /\ Untagged(pushed) = Untagged(ref.pushed)
        /\ wstatus = ref.status

\* C1 witness: an ended stream of three chunks, one of them empty, whose
\* first line is cut by a chunk boundary, with two events delivered
C1_Witness ==
    /\ inputEnded /\ wstatus = "ended"
    /\ Len(chunks) = 3
    /\ \E k \in 1..3 : chunks[k] = <<>>
    /\ chunks[1] # <<>> /\ IndexOfFrom(chunks[1], NL, 0) = -1
    /\ Len(SplitLines(Fed)) >= 1
    /\ Len(pushed) = 3

\* C2: watch event ordering.  While every newline-terminated line fed so far
\* is a JSON text, the events pushed by the transform are exactly one per
\* line, the k-th being the decoding of the k-th line, pushed while the chunk
\* that holds that line's newline was being processed.
C2_EventOrdering ==
    AllLinesValid(Fed) =>
        LET n == Len(SplitLines(Fed))
        IN  /\ Len(pushed) >= n
            /\ SubSeq(pushed, 1, n) = LineItems(n)
            /\ \A k \in (n + 1)..Len(pushed) : pushed[k].chunk = 0

\* C2 witness: two lines with different values ending in different chunks, the
\* second line begun in an earlier chunk than the one that ends it
C2_Witness ==
    /\ AllLinesValid(Fed)
    /\ Len(SplitLines(Fed)) = 2
    /\ Len(pushed) = 2
    /\ pushed[1].value # pushed[2].value
    /\ pushed[1].chunk = 1 /\ pushed[2].chunk = 3

\* C8: final flush.  When the stream is ended after lines that all decoded:
\* a non-empty residual that is a JSON text is pushed as exactly one event,
\* after the events of all lines and before the end of the stream is
\* signalled; an empty residual adds no event before the end is signalled;
\* and the residual is consumed (bufferLength is 0), so it cannot be emitted
\* again.
C8_FinalFlush ==
    LET res == Residual(Fed)
        n == Len(SplitLines(Fed))
    IN  (inputEnded /\ AllLinesValid(Fed) /\ (res = <<>> \/ JSONParse(res).ok)) =>
            /\ wstatus = "ended"
            /\ bufferLength = 0
            /\ pushed = LineItems(n)
                        \o (IF res = <<>> THEN <<>>
                            ELSE <<DataItem(JSONParse(res).value, 0)>>)
                        \o <<EndItem>>

\* C8 witness: an ended stream with one line and a non-empty residual that
\* reached the decoder in two chunks
C8_Witness ==
    /\ inputEnded /\ wstatus = "ended"
    /\ Len(SplitLines(Fed)) = 1
    /\ Len(Residual(Fed)) = 2
    /\ chunks[Len(chunks)] # <<>> /\ Len(chunks[Len(chunks)]) = 1
    /\ Len(pushed) = 3 /\ pushed[2].chunk = 0

----------------------------------------------------------------------------
(* JavaScript values and objects *)

\* Object.assign({}, a, b): the keys of both, b winning
Assign(a, b) ==
    [k \in (DOMAIN a) \cup (DOMAIN b) |-> IF k \in DOMAIN b THEN b[k] ELSE a[k]]

EmptyObject == [k \in {} |-> TRUE]

\* A value whose type the code tests (typeof, truthiness): its type, its
\* text if it is a string or an Error, its own enumerable properties if it is
\* an object.
Undefined == [t |-> "undefined", text |-> "", fields |-> EmptyObject]
Text(str) == [t |-> "string", text |-> str, fields |-> EmptyObject]
Obj(fields) == [t |-> "object", text |-> "", fields |-> fields]
\* new Error(message): message and stack are own but not enumerable
Error(message) == [t |-> "error", text |-> message, fields |-> EmptyObject]

\* o[k] === v for an object o
FieldIs(o, k, v) == k \in DOMAIN o.fields /\ o.fields[k] = v

----------------------------------------------------------------------------
(* connect: configOptions, streamK8sRequest, k8sRequest *)

SLASH == "/"

\* str.endsWith(c)
EndsWith(str, c) == str # <<>> /\ str[Len(str)] = c

\* const {token, ...otherConfig} = config; authConfig; configOptions
\* configOptions without the credential made of the token
ConfigOptionsNoAuth(cfg) ==
    LET otherConfig == [k \in (DOMAIN cfg) \ {"token"} |-> cfg[k]]
        url == IF EndsWith(cfg.url, SLASH) THEN cfg.url ELSE cfg.url \o <<SLASH>>
    IN  Assign(otherConfig, [url |-> url])

ConfigOptions(cfg) ==
    LET otherConfig == [k \in (DOMAIN cfg) \ {"token"} |-> cfg[k]]
        authConfig == IF "token" \in DOMAIN cfg /\ cfg.token # ""
                      THEN [auth |-> [bearer |-> cfg.token]]
                      ELSE EmptyObject
        url == IF EndsWith(cfg.url, SLASH) THEN cfg.url ELSE cfg.url \o <<SLASH>>
    IN  Assign(Assign(otherConfig, [url |-> url]), authConfig)

\* url.resolve(configOptions.url, path) for a base that ends with '/' and a
\* relative path
UrlResolve(base, path) == base \o path

\* streamK8sRequest(path, extraOptions): the request handed to the transport
StreamK8sRequest(cfg, path, extraOptions) ==
    [url |-> UrlResolve(ConfigOptions(cfg).url, path),
     options |-> Assign(ConfigOptions(cfg), extraOptions),
     cooked |-> FALSE,
     stream |-> TRUE]

\* k8sRequest that reads the mode from the wrong place: always cooked
K8sRequestAlwaysCooked(cfg, path, extraOptions) ==
    [url |-> UrlResolve(ConfigOptions(cfg).url, path),
     options |-> Assign(Assign(ConfigOptions(cfg), [json |-> TRUE]), extraOptions),
     cooked |-> TRUE,
     stream |-> FALSE]

\* k8sRequest(path, extraOptions), up to the call of request():
\* const cooked = !extraOptions.rawResponse;
\* const options = Object.assign({}, configOptions, {json: true}, extraOptions);
K8sRequest(cfg, path, extraOptions) ==
    [url |-> UrlResolve(ConfigOptions(cfg).url, path),
     options |-> Assign(Assign(ConfigOptions(cfg), [json |-> TRUE]), extraOptions),
     cooked |-> ~("rawResponse" \in DOMAIN extraOptions /\ extraOptions.rawResponse = TRUE),
     stream |-> FALSE]

\* What the transport passes to the callback: (err, response, data)
Response(err, statusCode, statusMessage, data) ==
    [err |-> err, statusCode |-> statusCode, statusMessage |-> statusMessage, data |-> data]

\* The state of the promise k8sRequest returns.  threw: the callback raised a
\* TypeError before it settled the promise.
Pending == [state |-> "pending", value |-> Undefined, threw |-> FALSE]
Resolved(v) == [state |-> "resolved", value |-> v, threw |-> FALSE]
Rejected(v) == [state |-> "rejected", value |-> v, threw |-> FALSE]
Threw == [state |-> "pending", value |-> Undefined, threw |-> TRUE]

\* the Status synthesized from a text body
SynthesizedStatus(resp) ==
    Obj([apiVersion |-> "v1",
         code |-> resp.statusCode,
         kind |-> "Status",
         message |-> resp.data.text,
         metadata |-> EmptyObject,
         reason |-> resp.statusMessage,
         status |-> "Failure"])

\* Object.assign(maybeStatus, new Error(maybeStatus.message)): the own
\* enumerable properties of the Error are copied onto maybeStatus
AssignError(maybeStatus, error) == Obj(Assign(maybeStatus.fields, error.fields))

\* the callback with a text body taken for a failure only when the HTTP status
\* is an error status
SettleTextOnHttpError(resp, cooked) ==
    IF resp.err.t # "undefined" THEN Rejected(resp.err)
    ELSE IF cooked
    THEN LET maybeStatus == IF resp.data.t = "string" /\ resp.statusCode >= 400
                            THEN SynthesizedStatus(resp) ELSE resp.data
         IN  IF maybeStatus.t = "undefined" THEN Threw
             ELSE IF FieldIs(maybeStatus, "kind", "Status") /\ FieldIs(maybeStatus, "status", "Failure")
             THEN Rejected(AssignError(maybeStatus, Error("")))
             ELSE Resolved(resp.data)
    ELSE Resolved(resp.data)

\* the callback given to request() in k8sRequest: (err, response, data) => ...
\* maybeStatus.kind of an absent body (undefined, null) raises a TypeError.
Settle(resp, cooked) ==
    IF resp.err.t # "undefined" THEN Rejected(resp.err)
    ELSE IF cooked
    THEN LET maybeStatus == IF resp.data.t = "string"
                            THEN SynthesizedStatus(resp) ELSE resp.data
         IN  IF maybeStatus.t = "undefined" THEN Threw
             ELSE IF FieldIs(maybeStatus, "kind", "Status") /\ FieldIs(maybeStatus, "status", "Failure")
             THEN Rejected(AssignError(maybeStatus,
                      Error(IF "message" \in DOMAIN maybeStatus.fields
                            THEN maybeStatus.fields.message ELSE "")))
             ELSE Resolved(resp.data)
    ELSE Resolved(resp.data)

----------------------------------------------------------------------------
(* createResourceCollection and createResource: the handles and their
   operations.  A handle is the closure of its factory's arguments. *)

\* createResourceCollection(resource, pathPrefix, extraOptions) of the API at groupPath
CreateResourceCollection(groupPath, resource, pathPrefix, extraOptions) ==
    [type |-> "collection", groupPath |-> groupPath, resource |-> resource,
     name |-> <<>>, pathPrefix |-> pathPrefix, extraOptions |-> extraOptions]

\* createResource(resource, name, pathPrefix, extraOptions) of the API at groupPath
CreateResource(groupPath, resource, name, pathPrefix, extraOptions) ==
    [type |-> "resource", groupPath |-> groupPath, resource |-> resource,
     name |-> name, pathPrefix |-> pathPrefix, extraOptions |-> extraOptions]

\* options() that forgets the options merged before
HandleOptionsReplace(h, options) == [h EXCEPT !.extraOptions = options]

\* options(options) of either handle
HandleOptions(h, options) == [h EXCEPT !.extraOptions = Assign(@, options)]

\* resourcePath of a collection, listPath of a single resource
CollectionPath(h) ==
    h.groupPath \o <<SLASH>>
    \o (IF h.pathPrefix # <<>> THEN h.pathPrefix \o <<SLASH>> ELSE <<>>)
    \o h.resource.name

\* resourcePath of a single resource
ResourcePath(h) ==
    h.groupPath \o <<SLASH>>
    \o (IF h.pathPrefix # <<>> THEN h.pathPrefix \o <<SLASH>> ELSE <<>>)
    \o h.resource.name \o <<SLASH>>
    \o h.name

\* a parameter with the default {}: an omitted argument is the empty object
OrEmpty(arg) == IF arg.t = "undefined" THEN EmptyObject ELSE arg.fields

RECURSIVE DeepMergeObject(_, _)
\* deepMerge(target, source) of two plain objects: the keys of both; a key of
\* source whose value is an object and that target holds too is merged in
\* turn, any other key of source replaces target's
DeepMergeObject(target, source) ==
    [k \in (DOMAIN target) \cup (DOMAIN source) |->
        IF k \notin DOMAIN source THEN target[k]
        ELSE IF source[k].t = "object" /\ k \in DOMAIN target /\ target[k].t = "object"
        THEN Obj(DeepMergeObject(target[k].fields, source[k].fields))
        ELSE source[k]]

\* the default merged one level deep only: the caller's metadata replaces it
WithDefaultNameShallow(name, object) ==
    Obj(Assign([metadata |-> Obj([name |-> Text(name)])], object.fields))

\* deepMerge({metadata: {name}}, object)
WithDefaultName(name, object) ==
    Obj(DeepMergeObject([metadata |-> Obj([name |-> Text(name)])], object.fields))

\* What an operation asks of the request primitives: the function it calls,
\* the path and the extraOptions it passes.
Ask(fn, path, extraOptions) == [fn |-> fn, path |-> path, extraOptions |-> extraOptions]

\* watch whose fixed query keys give way to the caller's qs
CollectionWatchQsWins(h, resourceVersion, qs) ==
    Ask("streamK8sRequest", CollectionPath(h),
        Assign(h.extraOptions,
               [json |-> FALSE, method |-> "GET",
                qs |-> Assign([resourceVersion |-> IF resourceVersion.t = "undefined"
                                                   THEN "" ELSE resourceVersion.text,
                               watch |-> "true"],
                              OrEmpty(qs))]))

\* watch(resourceVersion = '', qs = {}) of a collection
CollectionWatch(h, resourceVersion, qs) ==
    Ask("streamK8sRequest", CollectionPath(h),
        Assign(h.extraOptions,
               [json |-> FALSE, method |-> "GET",
                qs |-> Assign(OrEmpty(qs),
                              [resourceVersion |-> IF resourceVersion.t = "undefined"
                                                   THEN "" ELSE resourceVersion.text,
                               watch |-> "true"])]))

\* list(qs = {}) of a collection
CollectionList(h, qs) ==
    Ask("k8sRequest", CollectionPath(h),
        Assign(h.extraOptions, [method |-> "GET", qs |-> OrEmpty(qs)]))

\* create(object, qs = {}) of a collection
CollectionCreate(h, object, qs) ==
    Ask("k8sRequest", CollectionPath(h),
        Assign(h.extraOptions, [body |-> object, method |-> "POST", qs |-> OrEmpty(qs)]))

\* deletecollection(qs = {}) of a collection
CollectionDeleteCollection(h, qs) ==
    Ask("k8sRequest", CollectionPath(h),
        Assign(h.extraOptions, [method |-> "DELETE", qs |-> OrEmpty(qs)]))

\* get(qs = {}) of a single resource
ResourceGet(h, qs) ==
    Ask("k8sRequest", ResourcePath(h),
        Assign(h.extraOptions, [method |-> "GET", qs |-> OrEmpty(qs)]))

\* create(object, qs = {}) of a single resource: posted to the list
ResourceCreate(h, object, qs) ==
    Ask("k8sRequest", CollectionPath(h),
        Assign(h.extraOptions,
               [body |-> WithDefaultName(h.name, object), method |-> "POST",
                qs |-> OrEmpty(qs)]))

\* update(object, qs = {}) of a single resource
ResourceUpdate(h, object, qs) ==
    Ask("k8sRequest", ResourcePath(h),
        Assign(h.extraOptions,
               [body |-> WithDefaultName(h.name, object), method |-> "PUT",
                qs |-> OrEmpty(qs)]))

StrategicMergePatch == "application/strategic-merge-patch+json"

\* patch that takes its second argument for the content type whatever it is
ResourcePatchNoShift(h, object, contentType, qs) ==
    LET given == IF contentType.t = "undefined" THEN Text(StrategicMergePatch)
                 ELSE contentType
    IN  Ask("k8sRequest", ResourcePath(h),
            Assign(h.extraOptions,
                   [body |-> object,
                    headers |-> ("content-type" :> given.text),
                    method |-> "PATCH",
                    qs |-> OrEmpty(qs)]))

\* patch(object, contentType = 'application/strategic-merge-patch+json', qs = {})
ResourcePatch(h, object, contentType, qs) ==
    LET given == IF contentType.t = "undefined" THEN Text(StrategicMergePatch)
                 ELSE contentType
        realQS == IF given.t = "object" THEN given.fields ELSE OrEmpty(qs)
        realContentType == IF given.t = "object" THEN StrategicMergePatch ELSE given.text
    IN  Ask("k8sRequest", ResourcePath(h),
            Assign(h.extraOptions,
                   [body |-> object,
                    headers |-> ("content-type" :> realContentType),
                    method |-> "PATCH",
                    qs |-> realQS]))

\* delete(qs = {}) of a single resource
ResourceDelete(h, qs) ==
    Ask("k8sRequest", ResourcePath(h),
        Assign(h.extraOptions, [method |-> "DELETE", qs |-> OrEmpty(qs)]))

\* A call of an operation: its name and its positional arguments (Undefined
\* for an omitted one).
Call(op, a1, a2, a3) == [op |-> op, a1 |-> a1, a2 |-> a2, a3 |-> a3]

\* the operation c called on handle h
Operation(h, c) ==
    CASE c.op = "list" -> CollectionList(h, c.a1)
      [] c.op = "deletecollection" -> CollectionDeleteCollection(h, c.a1)
      [] c.op = "watch" -> CollectionWatch(h, c.a1, c.a2)
      [] c.op = "get" -> ResourceGet(h, c.a1)
      [] c.op = "delete" -> ResourceDelete(h, c.a1)
      [] c.op = "create" /\ h.type = "collection" -> CollectionCreate(h, c.a1, c.a2)
      [] c.op = "create" /\ h.type = "resource" -> ResourceCreate(h, c.a1, c.a2)
      [] c.op = "update" -> ResourceUpdate(h, c.a1, c.a2)
      [] c.op = "patch" -> ResourcePatch(h, c.a1, c.a2, c.a3)

\* the request the transport receives for an operation's Ask
Issue(cfg, ask) ==
    IF ask.fn = "k8sRequest" THEN K8sRequest(cfg, ask.path, ask.extraOptions)
    ELSE StreamK8sRequest(cfg, ask.path, ask.extraOptions)

----------------------------------------------------------------------------
(* One client, one handle, one operation at a time *)

\* the configurations given to connect: with and without the final '/' of the
\* url, with and without a token
Configs ==
    {[url |-> <<"h">>],
     [url |-> <<"h", SLASH>>, token |-> "secret"],
     [url |-> <<"h">>, token |-> ""]}

CorePath == <<"a", "p", "i", SLASH, "v", "1">>
NamespacesX == <<"n", "a", "m", "e", "s", "p", "a", "c", "e", "s", SLASH, "x">>
SomeResource == [name |-> <<"n">>, kind |-> <<"N">>, namespaced |-> TRUE]

\* the handles createResourceAPI makes for a resource, in and out of a namespace
Handles ==
    {CreateResourceCollection(CorePath, SomeResource, prefix, EmptyObject)
        : prefix \in {<<>>, NamespacesX}}
    \cup {CreateResource(CorePath, SomeResource, <<"m">>, prefix, EmptyObject)
        : prefix \in {<<>>, NamespacesX}}

\* the arguments given to options()
OptionSets ==
    {EmptyObject,
     [rawResponse |-> TRUE],
     [rawResponse |-> FALSE],
     [method |-> "DELETE", json |-> FALSE, headers |-> ("content-type" :> "text/plain")],
     [auth |-> [user |-> "u", pass |-> "p"]]}

\* the arguments given for qs
Queries == {Undefined, Obj([labelSelector |-> "a"])}

\* the arguments given for object
Objects ==
    {Obj([kind |-> Text(<<"N">>)]),
     Obj([metadata |-> Obj([name |-> Text(<<"o">>), labels |-> Text(<<"l">>)])]),
     Obj([kind |-> Text(<<"N">>), metadata |-> Obj([labels |-> Text(<<"l">>)])])}

\* the arguments given for the contentType of patch
ContentTypes == {Undefined, Text("application/merge-patch+json"), Obj([labelSelector |-> "a"])}

\* the arguments given for the resourceVersion and the qs of watch
ResourceVersions == {Undefined, Text("7")}
WatchQueries == {Undefined, Obj([labelSelector |-> "a", watch |-> "false", resourceVersion |-> "1"])}

\* the calls a handle offers
Calls(h) ==
    IF h.type = "collection"
    THEN {Call(op, q, Undefined, Undefined) : op \in {"list", "deletecollection"}, q \in Queries}
         \cup {Call("create", o, q, Undefined) : o \in Objects, q \in Queries}
         \cup {Call("watch", rv, q, Undefined) : rv \in ResourceVersions, q \in WatchQueries}
    ELSE {Call(op, q, Undefined, Undefined) : op \in {"get", "delete"}, q \in Queries}
         \cup {Call(op, o, q, Undefined) : op \in {"create", "update"}, o \in Objects, q \in Queries}
         \cup {Call("patch", o, ct, q) : o \in Objects, ct \in ContentTypes, q \in Queries}

\* the bodies the server answers with: Status failures, a Status that is no
\* failure, a resource whose status field reads Failure, a list, texts, and
\* no body at all
Bodies ==
    {Obj([apiVersion |-> "v1", kind |-> "Status", status |-> "Failure", message |-> "x",
          reason |-> "NotFound", code |-> 404]),
     Obj([kind |-> "Status", status |-> "Failure", message |-> "y"]),
     Obj([apiVersion |-> "v1", kind |-> "Status", status |-> "Success"]),
     Obj([kind |-> "Job", status |-> "Failure"]),
     Obj([kind |-> "PodList"]),
     Text("Unauthorized"),
     Text(""),
     Undefined}

HttpStatuses == {<<200, "OK">>, <<401, "Unauthorized">>, <<404, "Not Found">>}

\* what the transport can pass to the callback
Responses ==
    {Response(Error("ECONNRESET"), 0, "", Undefined)}
    \cup {Response(Undefined, st[1], st[2], data) : st \in HttpStatuses, data \in Bodies}

\* What the transport does with a request made without a callback: the
\* Request emits 'error', or it emits 'response' and then passes the body on
\* to the stream it is piped into.
StreamResponses ==
    {Response(Error("ECONNRESET"), 0, "", Undefined),
     Response(Undefined, 200, "OK", Undefined)}

\* The stream watch returns: streamK8sRequest(...).pipe(parseJSONStream) is
\* parseJSONStream, on which nothing has been emitted.
WatchStream == [state |-> "stream", value |-> Undefined, threw |-> FALSE]

\* The returned stream after the Request has emitted 'error' or 'response':
\* pipe() passes on the body and its end only, the caller holds no reference
\* to the Request, and nothing is emitted on parseJSONStream.
SettleStream(stream, r) == stream

RequestInit ==
    /\ config \in Configs
    /\ handle \in Handles
    /\ optionCalls = 0
    /\ call = Nothing
    /\ inflight = Nothing
    /\ response = Nothing
    /\ promise = Nothing
    /\ WatchIdle /\ BuildIdle /\ ConnectIdle /\ StreamsIdle

\* handle.options(options)
UseOptions ==
    /\ call = Nothing
    /\ optionCalls < MaxOptionsCalls
    /\ \E options \in OptionSets :
        /\ handle' = HandleOptions(handle, options)
        /\ optionCalls' = optionCalls + 1
        /\ UNCHANGED <<config, call, inflight, response, promise, notRequestVars>>

\* an operation of the handle is called: k8sRequest hands the request to the
\* transport and returns a pending promise
Invoke ==
    /\ call = Nothing
    /\ \E c \in Calls(handle) :
        /\ call' = [c |-> c, handle |-> handle]
        /\ inflight' = Issue(config, Operation(handle, c))
        /\ promise' = IF c.op = "watch" THEN WatchStream ELSE Pending
        /\ response' = Nothing
        /\ UNCHANGED <<config, handle, optionCalls, notRequestVars>>

\* the transport calls back
Respond ==
    /\ inflight # Nothing
    /\ \E r \in (IF inflight.stream THEN StreamResponses ELSE Responses) :
        /\ response' = r
        /\ promise' = IF inflight.stream THEN SettleStream(promise, r)
                                         ELSE Settle(r, inflight.cooked)
        /\ inflight' = Nothing
        /\ UNCHANGED <<config, handle, optionCalls, call, notRequestVars>>

\* The caller has handled the outcome and lets go of it; the handle is as
\* it was, ready for the next call.
Handled ==
    /\ call # Nothing
    /\ inflight = Nothing
    /\ call' = Nothing
    /\ response' = Nothing
    /\ promise' = Nothing
    /\ UNCHANGED <<config, handle, optionCalls, inflight, notRequestVars>>

RequestNext == UseOptions \/ Invoke \/ Respond \/ Handled

SpecRequest == RequestInit /\ [][RequestNext]_vars

----------------------------------------------------------------------------
(* Claims about the Status translation *)

\* a structured body {kind: "Status", status: "Failure", ...}
IsStatusFailure(data) ==
    data.t = "object" /\ FieldIs(data, "kind", "Status") /\ FieldIs(data, "status", "Failure")

\* rawResponse was set on the handle through options()
RawResponseSet(h) ==
    "rawResponse" \in DOMAIN h.extraOptions /\ h.extraOptions.rawResponse = TRUE

\* the transport answered the last operation that returns a promise without
\* a transport error
Answered == response # Nothing /\ response.err = Undefined /\ call.c.op # "watch"

C10_RawTextFailure ==
    (Answered /\ response.data.t = "string" /\ ~RawResponseSet(call.handle)) =>
        promise = Rejected(Obj([apiVersion |-> "v1",
                                code |-> response.statusCode,
                                kind |-> "Status",
                                message |-> response.data.text,
                                metadata |-> EmptyObject,
                                reason |-> response.statusMessage,
                                status |-> "Failure"]))

\* C10 witness: the text "Unauthorized" with HTTP status 401
C10_Witness ==
    /\ Answered
    /\ ~RawResponseSet(call.handle)
    /\ response.data = Text("Unauthorized")
    /\ response.statusCode = 401
    /\ promise.state = "rejected"
    /\ FieldIs(promise.value, "code", 401)
    /\ FieldIs(promise.value, "message", "Unauthorized")

----------------------------------------------------------------------------
(* createApiFromResources: the api object of one group-version *)

\* c.toLowerCase() of one character
LowerChar(c) ==
    CASE c = "N" -> "n"
      [] c = "S" -> "s"
      [] c = "K" -> "k"
      [] OTHER -> c

\* str.toLowerCase()
Lower(str) == [i \in 1..Len(str) |-> LowerChar(str[i])]

\* the property names the api object starts with
NameKey == <<"n", "a", "m", "e">>
PreferredKey == <<"p", "r", "e", "f", "e", "r", "r", "e", "d">>
VersionKey == <<"v", "e", "r", "s", "i", "o", "n">>
NsKey == <<"n", "s">>
ResourceKey == <<"r", "e", "s", "o", "u", "r", "c", "e">>

\* A property value of an api object: what it is, and what it holds (a
\* string or boolean; the handle; the arguments the factory closes over).
Member(what, of) == [member |-> what, of |-> of]

\* `namespaces/${namespace}`
NamespacePrefix(namespace) ==
    <<"n", "a", "m", "e", "s", "p", "a", "c", "e", "s", SLASH>> \o namespace

\* createResourceAPI(resource, pathPrefix): an object literal of two computed
\* keys, the second replacing the first when they are the same
CreateResourceAPI(groupPath, resource, pathPrefix) ==
    Assign(Lower(resource.name) :>
               Member("collection",
                      CreateResourceCollection(groupPath, resource, pathPrefix, EmptyObject)),
           Lower(resource.kind) :>
               Member("factory",
                      [groupPath |-> groupPath, resource |-> resource,
                       pathPrefix |-> pathPrefix]))

\* resourceName => createResource(resource, resourceName, pathPrefix)
ApplyFactory(member, resourceName) ==
    CreateResource(member.of.groupPath, member.of.resource, resourceName,
                   member.of.pathPrefix, EmptyObject)

\* nsResources[resource.name] = resource, the keys kept in insertion order
PutNsResource(nsResources, resource) ==
    IF \E i \in 1..Len(nsResources) : nsResources[i].name = resource.name
    THEN [i \in 1..Len(nsResources) |->
            IF nsResources[i].name = resource.name THEN resource ELSE nsResources[i]]
    ELSE Append(nsResources, resource)

\* the api object before the reduce, and what its closures hold
NewApi(apiName, groupPath, version, preferred, resources) ==
    [members |-> (NameKey :> Member("name", apiName))
                 @@ (PreferredKey :> Member("preferred", preferred))
                 @@ (VersionKey :> Member("version", version.version))
                 @@ (NsKey :> Member("ns", Nothing))
                 @@ (ResourceKey :> Member("resource", Nothing)),
     nsResources |-> <<>>,
     resources |-> resources,
     groupPath |-> groupPath]

\* the reduce step with the namespaced flag ignored
ReduceStepAllTopLevel(api, resource) ==
    IF IndexOfFrom(resource.name, SLASH, 0) # -1 THEN api
    ELSE [api EXCEPT !.members =
              Assign(@, CreateResourceAPI(api.groupPath, resource, <<>>))]

\* the reduce step without the test for a sub-resource
ReduceStepWithSubResources(api, resource) ==
    IF resource.namespaced
    THEN [api EXCEPT !.nsResources = PutNsResource(@, resource)]
    ELSE [api EXCEPT !.members =
              Assign(@, CreateResourceAPI(api.groupPath, resource, <<>>))]

\* one step of apiResources.resources.reduce((targetApi, resource) => ..., api)
ReduceStep(api, resource) ==
    IF IndexOfFrom(resource.name, SLASH, 0) # -1 THEN api
    ELSE IF resource.namespaced
    THEN [api EXCEPT !.nsResources = PutNsResource(@, resource)]
    ELSE [api EXCEPT !.members =
              Assign(@, CreateResourceAPI(api.groupPath, resource, <<>>))]

RECURSIVE Reduce(_, _)
Reduce(api, resources) ==
    IF resources = <<>> THEN api
    ELSE Reduce(ReduceStep(api, Head(resources)), Tail(resources))

\* createApiFromResources(apiResources) of createApi(apiName, groupPath, version, preferred)
CreateApiFromResources(apiName, groupPath, version, preferred, resources) ==
    Reduce(NewApi(apiName, groupPath, version, preferred, resources), resources)

RECURSIVE NsReduce(_, _, _)
NsReduce(api, namespace, keys) ==
    IF keys = <<>> THEN EmptyObject
    ELSE Assign(NsReduce(api, namespace, SubSeq(keys, 1, Len(keys) - 1)),
                CreateResourceAPI(api.groupPath, keys[Len(keys)], NamespacePrefix(namespace)))

\* api.ns(namespace)
Ns(api, namespace) == NsReduce(api, namespace, api.nsResources)

\* a call of ns whose reduce starts from the api object instead of {}
NsCallIntoApi(api, namespace) ==
    LET merged == Assign(api.members, Ns(api, namespace))
    IN  [result |-> merged, api |-> [api EXCEPT !.members = merged]]

\* A call of api.ns(namespace): what it returns and what it leaves of the api
\* object.  The reduce starts from a new {} and Object.assign writes to that.
NsCall(api, namespace) == [result |-> Ns(api, namespace), api |-> api]

\* api.resource(kind): the first resource of that kind, or undefined
ResourceOfKind(api, kind) ==
    LET hits == {i \in 1..Len(api.resources) : api.resources[i].kind = kind}
    IN  IF hits = {} THEN Nothing
        ELSE api.resources[CHOOSE i \in hits : \A j \in hits : i <= j]

----------------------------------------------------------------------------
(* One group-version and its surface *)

ResourceNames == {<<"n">>, <<"s">>, <<"n", "s">>, <<"n", SLASH, "s">>}
ResourceKinds == {<<"N">>, <<"S">>, <<"N", "s">>, <<"K">>}
Descriptors == [name : ResourceNames, kind : ResourceKinds, namespaced : BOOLEAN]

\* The resources of an APIResourceList: the name of a resource is its place
\* in the URL of the group-version, so no two resources of a list share it.
ResourceLists ==
    {rs \in SeqsUpTo(Descriptors, MaxResources) :
        \A i, j \in 1..Len(rs) : i # j => rs[i].name # rs[j].name}

Namespaces == {<<"x">>, <<"y">>}
GroupG == <<"g">>
V1 == <<"v", "1">>
GroupGPath == <<"a", "p", "i", "s", SLASH>> \o GroupG \o <<SLASH>> \o V1

BuildInit ==
    /\ apiResources = Nothing
    /\ surface = Nothing
    /\ nsResult = Nothing
    /\ resourceResult = Nothing
    /\ WatchIdle /\ RequestIdle /\ ConnectIdle /\ StreamsIdle

\* k8sRequest(groupPath, {}).then(createApiFromResources)
Build ==
    /\ surface = Nothing
    /\ \E resources \in ResourceLists :
        /\ apiResources' = resources
        /\ surface' = CreateApiFromResources(GroupG, GroupGPath,
                                             [groupVersion |-> GroupG \o <<SLASH>> \o V1,
                                              version |-> V1],
                                             TRUE, resources)
        /\ UNCHANGED <<nsResult, resourceResult, notBuildVars>>

\* api.ns(namespace)
CallNs ==
    /\ surface # Nothing
    /\ \E namespace \in Namespaces :
        /\ nsResult' = [namespace |-> namespace, result |-> NsCall(surface, namespace).result]
        /\ surface' = NsCall(surface, namespace).api
        /\ UNCHANGED <<apiResources, resourceResult, notBuildVars>>

\* api.resource(kind)
CallResource ==
    /\ surface # Nothing
    /\ \E kind \in ResourceKinds :
        /\ resourceResult' = [kind |-> kind, result |-> ResourceOfKind(surface, kind)]
        /\ UNCHANGED <<apiResources, surface, nsResult, notBuildVars>>

BuildNext == Build \/ CallNs \/ CallResource

SpecBuild == BuildInit /\ [][BuildNext]_vars

----------------------------------------------------------------------------
(* Claims about the surface *)

\* the resource a property of a surface was made for (Nothing: a property
\* that is no collection handle and no factory)
MadeFor(member) ==
    IF member.member = "collection" THEN member.of.resource
    ELSE IF member.member = "factory" THEN member.of.resource
    ELSE Nothing

----------------------------------------------------------------------------
(* calculateApiName *)

\* the truthiness of an optional string argument: given and not empty
Truthy(arg) == arg.t = "string" /\ arg.text # <<>>

\* calculateApiName that keeps the version named in groupName
CalculateApiNameEmbeddedWins(groupName, versionName) ==
    IF IndexOfFrom(groupName, SLASH, 0) # -1 THEN groupName
    ELSE IF groupName # <<>>
    THEN IF Truthy(versionName) THEN groupName \o <<SLASH>> \o versionName.text
         ELSE groupName
    ELSE IF Truthy(versionName) THEN versionName.text ELSE <<>>

\* calculateApiName that puts the given version behind the whole groupName
CalculateApiNameAppendVersion(groupName, versionName) ==
    LET slashIndex == IndexOfFrom(groupName, SLASH, 0)
    IN  IF slashIndex = -1
        THEN IF groupName # <<>>
             THEN IF Truthy(versionName)
                  THEN groupName \o <<SLASH>> \o versionName.text
                  ELSE groupName
             ELSE IF Truthy(versionName) THEN versionName.text ELSE <<>>
        ELSE IF Truthy(versionName)
        THEN groupName \o <<SLASH>> \o versionName.text
        ELSE groupName

\* calculateApiName(groupName, versionName)
CalculateApiName(groupName, versionName) ==
    LET slashIndex == IndexOfFrom(groupName, SLASH, 0)
    IN  IF slashIndex = -1
        THEN IF groupName # <<>>
             THEN IF Truthy(versionName)
                  THEN groupName \o <<SLASH>> \o versionName.text
                  ELSE groupName
             ELSE IF Truthy(versionName) THEN versionName.text ELSE <<>>
        ELSE IF Truthy(versionName)
        THEN Slice(groupName, 0, slashIndex) \o <<SLASH>> \o versionName.text
        ELSE groupName

----------------------------------------------------------------------------
(* connect: discovery, createApi for every group-version, the registry and
   the client *)

ApisPath == <<"a", "p", "i", "s">>
ApiPath == <<"a", "p", "i">>
GroupKey == <<"g", "r", "o", "u", "p">>

\* const coreVersion = config.version || 'v1';
CoreVersion(cfg) ==
    IF "version" \in DOMAIN cfg /\ cfg.version # <<>> THEN cfg.version ELSE V1

\* the preferred flag set for every version of the group
IsPreferredAlways(group, version) == TRUE

\* version.version === group.preferredVersion.version
IsPreferred(group, version) == version.version = group.preferredVersion.version

\* A createApi(apiName, groupPath, version, preferred) call: its arguments,
\* the request k8sRequest(groupPath, {}) it has handed to the transport, and
\* how its promise stands ("inflight", "built", "failed", or "stuck" when the
\* callback raised), with the response it got and the api it built.
CreateApi(cfg, apiName, groupPath, version, preferred) ==
    [apiName |-> apiName, groupPath |-> groupPath, version |-> version,
     preferred |-> preferred,
     request |-> K8sRequest(cfg, groupPath, EmptyObject),
     state |-> "inflight", response |-> Nothing, api |-> Nothing]

\* group.versions.map(version => createApi(group.name, `apis/${version.groupVersion}`, ...))
GroupBuilds(cfg, group) ==
    [i \in 1..Len(group.versions) |->
        CreateApi(cfg, group.name,
                  ApisPath \o <<SLASH>> \o group.versions[i].groupVersion,
                  group.versions[i],
                  IsPreferred(group, group.versions[i]))]

RECURSIVE FlatMapBuilds(_, _)
\* flatMap(apiGroups.groups, group => ...)
FlatMapBuilds(cfg, groups) ==
    IF groups = <<>> THEN <<>>
    ELSE GroupBuilds(cfg, Head(groups)) \o FlatMapBuilds(cfg, Tail(groups))

\* apiPromises without the build of the core API
ApiPromisesNoCore(cfg, apiGroups) == FlatMapBuilds(cfg, apiGroups.groups)

\* apiPromises: the builds of the groups, then the build of the core API
ApiPromises(cfg, apiGroups) ==
    Append(FlatMapBuilds(cfg, apiGroups.groups),
           CreateApi(cfg, <<>>, ApiPath \o <<SLASH>> \o CoreVersion(cfg),
                     [groupVersion |-> CoreVersion(cfg), version |-> CoreVersion(cfg)],
                     TRUE))

\* Promise.all that waits for every build and leaves out the failed ones
PromiseAllSkipFailed(bs) ==
    IF \E i \in 1..Len(bs) : bs[i].state \in {"inflight", "stuck"} THEN "pending"
    ELSE "fulfilled"

\* a combinator fulfilled as soon as one build is, like Promise.race
PromiseAllFirstWins(bs) ==
    IF \E i \in 1..Len(bs) : bs[i].state = "built" THEN "fulfilled"
    ELSE IF \E i \in 1..Len(bs) : bs[i].state = "failed" THEN "rejected"
    ELSE "pending"

\* Promise.all(apiPromises): rejected as soon as one build is rejected,
\* fulfilled when every build is fulfilled
PromiseAll(bs) ==
    IF \E i \in 1..Len(bs) : bs[i].state = "failed" THEN "rejected"
    ELSE IF \A i \in 1..Len(bs) : bs[i].state = "built" THEN "fulfilled"
    ELSE "pending"

\* the registry key with the group name left out
RegistryKeyVersionOnly(api) == api.members[VersionKey].of

\* const apiNamePrefix = api.name ? `${api.name}/` : ''; `${apiNamePrefix}${api.version}`
RegistryKey(api) ==
    (IF api.members[NameKey].of # <<>> THEN api.members[NameKey].of \o <<SLASH>> ELSE <<>>)
    \o api.members[VersionKey].of

\* a reduce step that returns the entries of this api only
RegistryStepNoAccumulate(result, api) ==
    LET withKey == RegistryKey(api) :> api
    IN  IF api.members[PreferredKey].of
        THEN Assign(withKey, api.members[NameKey].of :> api)
        ELSE withKey

\* one step of apis.reduce((result, api) => ..., {})
RegistryStep(result, api) ==
    LET withKey == Assign(result, RegistryKey(api) :> api)
    IN  IF api.members[PreferredKey].of
        THEN Assign(withKey, api.members[NameKey].of :> api)
        ELSE withKey

RECURSIVE Registry(_)
\* apis.reduce(..., {}) over the apis Promise.all delivered
Registry(apis) ==
    IF apis = <<>> THEN EmptyObject
    ELSE RegistryStep(Registry(SubSeq(apis, 1, Len(apis) - 1)), apis[Len(apis)])

\* the apis Promise.all delivers: those of the builds, in the order of apiPromises
BuiltApis(bs) ==
    LET RECURSIVE Pick(_)
        Pick(i) == IF i > Len(bs) THEN <<>>
                   ELSE IF bs[i].state = "built" THEN <<bs[i].api>> \o Pick(i + 1)
                   ELSE Pick(i + 1)
    IN  Pick(1)

\* The property names every JavaScript object inherits: apis[apiName] finds
\* them although they are no keys of the registry.
ObjectPrototypeKeys == {<<"c", "o", "n", "s", "t", "r", "u", "c", "t", "o", "r">>}

\* the client without the properties of the core api
ClientGroupOnly(cfg, apis) ==
    [members |-> GroupKey :> Member("group", Nothing),
     core |-> [members |-> EmptyObject, nsResources |-> <<>>,
               resources |-> <<>>, groupPath |-> <<>>],
     apis |-> apis]

\* the client: Object.assign({}, coreApi, {group(groupName, versionName) {...}})
\* with coreApi = Object.assign({}, apis[coreVersion]) less its name.  The
\* closures of the client hold the registry and the core api.
Client(cfg, apis) ==
    LET core == IF CoreVersion(cfg) \in DOMAIN apis THEN apis[CoreVersion(cfg)]
                ELSE [members |-> EmptyObject, nsResources |-> <<>>,
                      resources |-> <<>>, groupPath |-> <<>>]
        coreApi == [k \in (DOMAIN core.members) \ {NameKey} |-> core.members[k]]
    IN  [members |-> Assign(coreApi, GroupKey :> Member("group", Nothing)),
         core |-> core,
         apis |-> apis]

\* client.group(groupName, versionName): the api, or the Error thrown with
\* the message `No API group ${apiName} available`.  apis is a plain object:
\* apis[apiName] also finds what Object.prototype holds, and that is truthy.
Group(client, groupName, versionName) ==
    LET apiName == CalculateApiName(groupName, versionName)
    IN  IF apiName \in DOMAIN client.apis
        THEN [threw |-> FALSE, api |-> client.apis[apiName], apiName |-> apiName,
              message |-> Nothing]
        ELSE IF apiName \in ObjectPrototypeKeys
        THEN [threw |-> FALSE, api |-> Member("inherited", apiName), apiName |-> apiName,
              message |-> Nothing]
        ELSE [threw |-> TRUE, api |-> Nothing, apiName |-> apiName,
              message |-> <<"No API group ", apiName, " available">>]

----------------------------------------------------------------------------
(* One connect, and group() calls on its client *)

V2 == <<"v", "2">>
GroupNames == {<<"g">>, <<"h">>}
VersionNames == {V1, V2}

\* the configurations given to connect: the core version defaulted or given
ConnectConfigs ==
    {[url |-> <<"h">>],
     [url |-> <<"h", SLASH>>, token |-> "secret", version |-> V2]}

\* a GroupVersionForDiscovery of group g
VersionOf(g, v) == [groupVersion |-> g \o <<SLASH>> \o v, version |-> v]

\* the lists of distinct elements of S
DistinctSeqs(S) ==
    {q \in SeqsUpTo(S, Cardinality(S)) : \A i, j \in 1..Len(q) : i # j => q[i] # q[j]}

\* The APIGroups a server reports: a group has at least one version, no
\* version twice, and prefers one of its versions.
Groups ==
    {[name |-> g,
      versions |-> [i \in 1..Len(vs) |-> VersionOf(g, vs[i])],
      preferredVersion |-> VersionOf(g, p)]
        : g \in GroupNames,
          vs \in DistinctSeqs(VersionNames) \ {<<>>},
          p \in VersionNames}

\* The APIGroupLists a server reports: no group twice.
GroupLists ==
    {gs \in SeqsUpTo({gr \in Groups : gr.preferredVersion \in
                                        {gr.versions[i] : i \in 1..Len(gr.versions)}},
                     Cardinality(GroupNames)) :
        \A i, j \in 1..Len(gs) : i # j => gs[i].name # gs[j].name}

\* The resource list the server holds for a group-version: the answers to
\* different group-versions differ.
ServerResources(apiName, version) ==
    IF apiName = <<>>
    THEN <<[name |-> <<"n">>, kind |-> <<"K">>, namespaced |-> TRUE],
           [name |-> <<"p">>, kind |-> <<"S">>, namespaced |-> FALSE]>>
    ELSE IF version = V1
    THEN <<[name |-> <<"s">>, kind |-> <<"S">>, namespaced |-> FALSE]>>
    ELSE <<[name |-> <<"n">>, kind |-> <<"N">>, namespaced |-> TRUE],
           [name |-> <<"s">>, kind |-> <<"S">>, namespaced |-> TRUE]>>

StatusNotFound ==
    Obj([apiVersion |-> "v1", kind |-> "Status", status |-> "Failure", message |-> "x",
         reason |-> "NotFound", code |-> 404])

\* what the transport can pass to the callback of the 'apis' request
RootResponses ==
    {Response(Error("ECONNRESET"), 0, "", Undefined),
     Response(Undefined, 404, "Not Found", StatusNotFound),
     Response(Undefined, 401, "Unauthorized", Text("Unauthorized")),
     Response(Undefined, 200, "OK", Undefined)}
    \cup {Response(Undefined, 200, "OK", Obj([kind |-> "APIGroupList", groups |-> gs]))
            : gs \in GroupLists}

\* what the transport can pass to the callback of a group-version's request
BuildResponses(apiName, version) ==
    {Response(Error("ECONNRESET"), 0, "", Undefined),
     Response(Undefined, 404, "Not Found", StatusNotFound),
     Response(Undefined, 200, "OK",
              Obj([kind |-> "APIResourceList",
                   resources |-> ServerResources(apiName, version)]))}

\* the arguments given to client.group()
LookupGroupNames ==
    {<<>>} \cup GroupNames
    \cup {g \o <<SLASH>> \o v : g \in GroupNames, v \in VersionNames}
    \cup ObjectPrototypeKeys
LookupVersionNames == {Undefined} \cup {Text(v) : v \in VersionNames}

ConnectInit ==
    /\ pc = "Disconnected"
    /\ issued = <<>>
    /\ rootResponse = Nothing
    /\ builds = <<>>
    /\ connectPromise = Nothing
    /\ lookup = Nothing
    /\ WatchIdle /\ RequestIdle /\ BuildIdle /\ StreamsIdle

\* connect(config) up to return k8sRequest('apis').then(...)
Connect ==
    /\ pc = "Disconnected"
    /\ \E cfg \in ConnectConfigs :
        /\ config' = cfg
        /\ issued' = <<K8sRequest(cfg, ApisPath, EmptyObject)>>
    /\ pc' = "Discovering"
    /\ connectPromise' = Pending
    /\ UNCHANGED <<rootResponse, builds, lookup, notConnectVars>>

\* The transport calls back for 'apis'.  A rejection runs down the chain to
\* the promise of connect; a catalog starts the builds: every createApi
\* hands its request to the transport before Promise.all is called.
RootRespond ==
    /\ pc = "Discovering"
    /\ rootResponse = Nothing
    /\ \E r \in RootResponses :
        LET p == Settle(r, issued[1].cooked)
        IN  /\ rootResponse' = r
            /\ IF p.state = "resolved"
               THEN LET bs == ApiPromises(config, r.data.fields)
                    IN  /\ builds' = bs
                        /\ issued' = issued \o [i \in 1..Len(bs) |-> bs[i].request]
                        /\ pc' = "BuildingSurfaces"
                        /\ UNCHANGED connectPromise
               ELSE IF p.state = "rejected"
               THEN /\ connectPromise' = p
                    /\ pc' = "Failed"
                    /\ UNCHANGED <<builds, issued>>
               ELSE UNCHANGED <<builds, issued, pc, connectPromise>>
    /\ UNCHANGED <<config, lookup, notConnectVars>>

\* the build whose request was answered by r
Answer(b, r) ==
    LET p == Settle(r, b.request.cooked)
    IN  IF p.state = "resolved"
        THEN [b EXCEPT !.state = "built", !.response = r,
                       !.api = CreateApiFromResources(b.apiName, b.groupPath, b.version,
                                                      b.preferred, r.data.fields.resources)]
        ELSE IF p.state = "rejected"
        THEN [b EXCEPT !.state = "failed", !.response = r]
        ELSE [b EXCEPT !.state = "stuck", !.response = r]

\* The transport calls back for the request of one build, in any order.  The
\* promise chain runs before the next callback: Promise.all, and when it is
\* fulfilled the registry and the client.
BuildRespond ==
    /\ pc \in {"BuildingSurfaces", "Failed"}
    /\ \E i \in 1..Len(builds) :
        /\ builds[i].state = "inflight"
        /\ \E r \in BuildResponses(builds[i].apiName, builds[i].version.version) :
            LET bs == [builds EXCEPT ![i] = Answer(builds[i], r)]
                all == PromiseAll(bs)
            IN  /\ builds' = bs
                /\ IF pc = "BuildingSurfaces" /\ all = "rejected"
                   THEN /\ connectPromise' = Settle(r, builds[i].request.cooked)
                        /\ pc' = "Failed"
                   ELSE IF pc = "BuildingSurfaces" /\ all = "fulfilled"
                   THEN /\ connectPromise' = Resolved(Client(config, Registry(BuiltApis(bs))))
                        /\ pc' = "Ready"
                   ELSE UNCHANGED <<connectPromise, pc>>
    /\ UNCHANGED <<config, issued, rootResponse, lookup, notConnectVars>>

\* client.group(groupName, versionName)
GroupLookup ==
    /\ pc = "Ready"
    /\ \E groupName \in LookupGroupNames, versionName \in LookupVersionNames :
        lookup' = [groupName |-> groupName, versionName |-> versionName,
                   outcome |-> Group(connectPromise.value, groupName, versionName)]
    /\ UNCHANGED <<config, pc, issued, rootResponse, builds, connectPromise, notConnectVars>>

ConnectNext == Connect \/ RootRespond \/ BuildRespond \/ GroupLookup

SpecConnect == ConnectInit /\ [][ConnectNext]_vars

----------------------------------------------------------------------------
(* Claims about connect and group() *)

\* the groups of the catalog the server answered 'apis' with
Catalog == rootResponse.data.fields.groups

\* the (group, version) pairs of the catalog, and the core group-version
CatalogGroupVersions ==
    UNION {{<<Catalog[i].name, Catalog[i].versions[j].version>> :
                j \in 1..Len(Catalog[i].versions)} : i \in 1..Len(Catalog)}

\* the transport answered, and the answer is a catalog
Succeeded(r) ==
    /\ r # Nothing
    /\ r.err = Undefined
    /\ r.data.t = "object"
    /\ ~IsStatusFailure(r.data)

\* the transport answered with an error, a Status failure or an error text
FailedResponse(r) ==
    /\ r # Nothing
    /\ (r.err # Undefined \/ IsStatusFailure(r.data) \/ r.data.t = "string")

\* the value is a client: what connect hands to the caller when it succeeds
IsClient(value) == DOMAIN value = {"members", "core", "apis"}

\* the build of group g in version v
BuildOf(g, v) ==
    CHOOSE b \in {builds[i] : i \in 1..Len(builds)} :
        b.apiName = g /\ b.version.version = v

\* the api is the surface built for group g in version v from the resource
\* list the server holds for it
SurfaceOf(api, g, v, groupPath) ==
    /\ api = BuildOf(g, v).api
    /\ api.members[NameKey].of = g
    /\ api.members[VersionKey].of = v
    /\ api.groupPath = groupPath
    /\ api.resources = ServerResources(g, v)
    /\ BuildOf(g, v).request.url = UrlResolve(ConfigOptions(config).url, groupPath)

\* C3: connect yields a client exactly when the 'apis' request and the
\* request of every (group, version) of the catalog and of the core
\* group-version have all succeeded; when the 'apis' request or any one of
\* these requests has failed, connect has failed with an error, and at no
\* time does the caller hold a client that lacks a surface.
C3_AllOrNothing ==
    pc # "Disconnected" =>
        /\ connectPromise.state = "resolved" <=>
              /\ Succeeded(rootResponse)
              /\ \A i \in 1..Len(builds) : Succeeded(builds[i].response)
        /\ Succeeded(rootResponse) =>
              {<<builds[i].apiName, builds[i].version.version>> : i \in 1..Len(builds)}
                  = CatalogGroupVersions \cup {<<<<>>, CoreVersion(config)>>}
        /\ (FailedResponse(rootResponse)
              \/ \E i \in 1..Len(builds) : FailedResponse(builds[i].response)) =>
              /\ connectPromise.state = "rejected"
              /\ ~IsClient(connectPromise.value)
              /\ connectPromise.value.t \in {"error", "object", "string"}
        /\ connectPromise.state = "resolved" =>
              /\ IsClient(connectPromise.value)
              /\ \A gv \in CatalogGroupVersions :
                    ~Group(connectPromise.value, gv[1], Text(gv[2])).threw

\* C3 witness: one build has succeeded, another has failed and a third is
\* still on its way; connect has failed.
C3_Witness ==
    /\ pc = "Failed"
    /\ connectPromise.state = "rejected"
    /\ \E i, j, k \in 1..Len(builds) :
        /\ builds[i].state = "built"
        /\ builds[j].state = "failed"
        /\ builds[k].state = "inflight"

\* C6: after a successful connect, for every group g and version v of the
\* catalog, group(g, v) and group(g + '/' + v) both return the surface built
\* for exactly that group-version: the key the registry holds it under is
\* calculateApiName(g, v), and that key holds no other surface.
C6_VersionedGroupLookup ==
    pc = "Ready" =>
        \A gv \in CatalogGroupVersions :
            LET g == gv[1]
                v == gv[2]
                two == Group(connectPromise.value, g, Text(v))
                one == Group(connectPromise.value, g \o <<SLASH>> \o v, Undefined)
            IN  /\ ~two.threw
                /\ ~one.threw
                /\ one.api = two.api
                /\ SurfaceOf(two.api, g, v, ApisPath \o <<SLASH>> \o g \o <<SLASH>> \o v)
                /\ RegistryKey(BuildOf(g, v).api) = CalculateApiName(g, Text(v))
                /\ connectPromise.value.apis[CalculateApiName(g, Text(v))] = BuildOf(g, v).api

\* C6 witness: the catalog holds two groups, one of them in two versions, and
\* group('g/v2') has returned the surface of a version that is not preferred.
C6_Witness ==
    /\ pc = "Ready"
    /\ Len(Catalog) = 2
    /\ \E i \in 1..Len(Catalog) :
        /\ Catalog[i].name = <<"g">>
        /\ Len(Catalog[i].versions) = 2
        /\ Catalog[i].preferredVersion.version = V1
    /\ lookup # Nothing
    /\ lookup.groupName = <<"g", SLASH>> \o V2
    /\ lookup.versionName = Undefined
    /\ ~lookup.outcome.threw
    /\ lookup.outcome.api.members[VersionKey].of = V2

\* C7: after a successful connect, group(g) without a version returns, for
\* every group g of the catalog, the surface of the version the server
\* reported as preferred; group('', coreVersion) and group('') return the
\* surface of the core group in the configured version ('v1' by default).
C7_PreferredAndCoreLookup ==
    pc = "Ready" =>
        /\ \A i \in 1..Len(Catalog) :
            LET g == Catalog[i].name
                v == Catalog[i].preferredVersion.version
                bare == Group(connectPromise.value, g, Undefined)
            IN  /\ ~bare.threw
                /\ SurfaceOf(bare.api, g, v,
                             ApisPath \o <<SLASH>> \o Catalog[i].preferredVersion.groupVersion)
        /\ LET v == CoreVersion(config)
               two == Group(connectPromise.value, <<>>, Text(v))
               one == Group(connectPromise.value, <<>>, Undefined)
           IN  /\ ~two.threw
               /\ ~one.threw
               /\ one.api = two.api
               /\ SurfaceOf(two.api, <<>>, v, ApiPath \o <<SLASH>> \o v)
               /\ v = IF "version" \in DOMAIN config THEN config.version ELSE V1

\* C7 witness: a group lists its preferred version first and another version
\* after it, the core version is configured, and group('g') has been called.
C7_Witness ==
    /\ pc = "Ready"
    /\ "version" \in DOMAIN config
    /\ \E i \in 1..Len(Catalog) :
        /\ Catalog[i].name = <<"g">>
        /\ Len(Catalog[i].versions) = 2
        /\ Catalog[i].preferredVersion = Catalog[i].versions[1]
        /\ lookup # Nothing
        /\ lookup.groupName = <<"g">>
        /\ lookup.versionName = Undefined
        /\ ~lookup.outcome.threw
        /\ lookup.outcome.api.members[VersionKey].of = Catalog[i].versions[1].version

\* C11: after a successful connect, a group(groupName, versionName) whose
\* canonical name is no key of the registry throws an error whose message
\* names the canonical name, and returns no surface.
C11_ResolutionError ==
    (pc = "Ready" /\ lookup # Nothing
       /\ CalculateApiName(lookup.groupName, lookup.versionName)
             \notin DOMAIN connectPromise.value.apis) =>
        /\ lookup.outcome.threw
        /\ lookup.outcome.api = Nothing
        /\ lookup.outcome.message =
             <<"No API group ", CalculateApiName(lookup.groupName, lookup.versionName),
               " available">>

\* the mapping holds a collection handle for d under its lower-cased name and
\* a singleton factory for d under its lower-cased kind
BothHandles(mapping, d) ==
    /\ Lower(d.name) \in DOMAIN mapping
    /\ mapping[Lower(d.name)].member = "collection"
    /\ mapping[Lower(d.name)].of.resource = d
    /\ Lower(d.kind) \in DOMAIN mapping
    /\ mapping[Lower(d.kind)].member = "factory"
    /\ mapping[Lower(d.kind)].of.resource = d

\* C12: for every resource of the list whose name has no '/', the mapping it
\* is exposed on (the surface if it is not namespaced, ns(x) if it is) maps
\* its lower-cased name to a collection handle and its lower-cased kind to a
\* singleton factory, both made for it, whatever the other keys are.
C12_BothHandlesPerDescriptor ==
    surface # Nothing =>
        \A i \in 1..Len(apiResources) :
            LET d == apiResources[i]
            IN  IndexOfFrom(d.name, SLASH, 0) = -1 =>
                    IF d.namespaced
                    THEN \A x \in Namespaces : BothHandles(Ns(surface, x), d)
                    ELSE BothHandles(surface.members, d)

\* C13: when the transport fails the request of an operation, the failure
\* reaches the caller of the operation, as the rejection of the promise or as
\* an error or the end of the stream watch returned, and the request is not
\* issued again.
C13_TransportErrorSurfaced ==
    (response # Nothing /\ response.err # Undefined) =>
        /\ inflight = Nothing
        /\ IF call.c.op = "watch"
           THEN promise.state \in {"errored", "ended"}
           ELSE promise = Rejected(response.err)

\* the HTTP method of an operation
Verb(op) ==
    CASE op \in {"list", "get", "watch"} -> "GET"
      [] op = "create" -> "POST"
      [] op = "update" -> "PUT"
      [] op = "patch" -> "PATCH"
      [] op \in {"delete", "deletecollection"} -> "DELETE"

\* the query mapping the caller gave to the call (Undefined: none)
QueryArgument(c) ==
    CASE c.op \in {"list", "deletecollection", "get", "delete"} -> c.a1
      [] c.op \in {"create", "update", "watch"} -> c.a2
      [] c.op = "patch" -> IF c.a2.t = "object" THEN c.a2 ELSE c.a3

\* C14: every key of the caller's qs is in the query of the issued request
\* with the caller's value, except that watch fixes 'watch' to 'true' and
\* 'resourceVersion' to its positional argument; the method of the request is
\* the operation's verb whatever options() merged into the handle.
C14_QueryAndMethodPrecedence ==
    inflight # Nothing =>
        LET c == call.c
            given == OrEmpty(QueryArgument(c))
            sent == inflight.options.qs
        IN  /\ \A k \in DOMAIN given :
                /\ k \in DOMAIN sent
                /\ (c.op = "watch" /\ k \in {"watch", "resourceVersion"}) \/ sent[k] = given[k]
            /\ c.op = "watch" =>
                /\ sent["watch"] = "true"
                /\ sent["resourceVersion"] = IF c.a1.t = "undefined" THEN "" ELSE c.a1.text
            /\ inflight.options.method = Verb(c.op)

\* C14 witness: watch("7", qs) with qs naming watch and resourceVersion, on a
\* handle whose options name another method
C14_Witness ==
    /\ inflight # Nothing
    /\ call.c.op = "watch"
    /\ call.c.a1 = Text("7")
    /\ call.c.a2.t = "object"
    /\ "watch" \in DOMAIN call.c.a2.fields
    /\ "method" \in DOMAIN call.handle.extraOptions
    /\ call.handle.extraOptions.method = "DELETE"
    /\ inflight.options.qs["labelSelector"] = "a"

\* the path of the collection a handle belongs to, and of a singleton in it
ExpectedCollectionPath(h) ==
    IF h.pathPrefix = <<>> THEN h.groupPath \o <<SLASH>> \o h.resource.name
    ELSE h.groupPath \o <<SLASH>> \o h.pathPrefix \o <<SLASH>> \o h.resource.name
ExpectedSingletonPath(h) == ExpectedCollectionPath(h) \o <<SLASH>> \o h.name

\* sent is the caller's body given with metadata.name defaulted to n: every
\* field of given is kept, those of its metadata too, nothing else is added,
\* and metadata.name is n when given supplies none
NameDefaulted(sent, given, n) ==
    LET givenMeta == IF "metadata" \in DOMAIN given.fields
                     THEN given.fields.metadata.fields ELSE EmptyObject
        sentMeta == sent.fields.metadata.fields
    IN  /\ sent.t = "object"
        /\ DOMAIN sent.fields = DOMAIN given.fields \cup {"metadata"}
        /\ \A k \in DOMAIN given.fields \ {"metadata"} : sent.fields[k] = given.fields[k]
        /\ DOMAIN sentMeta = DOMAIN givenMeta \cup {"name"}
        /\ \A k \in DOMAIN givenMeta : sentMeta[k] = givenMeta[k]
        /\ "name" \notin DOMAIN givenMeta => sentMeta.name = Text(n)

\* C15: on the singleton handle of resource name n, create(body) issues a
\* POST to the collection path and update(body) a PUT to the singleton path,
\* both with the caller's body in which metadata.name is defaulted to n.
C15_SingletonCreateUpdate ==
    (inflight # Nothing /\ call.handle.type = "resource"
       /\ call.c.op \in {"create", "update"}) =>
        /\ inflight.options.method = IF call.c.op = "create" THEN "POST" ELSE "PUT"
        /\ inflight.url =
             UrlResolve(ConfigOptions(config).url,
                        IF call.c.op = "create" THEN ExpectedCollectionPath(call.handle)
                        ELSE ExpectedSingletonPath(call.handle))
        /\ NameDefaulted(inflight.options.body, call.c.a1, call.handle.name)

\* C15 witness: update of a namespaced singleton with a body whose metadata
\* holds labels and no name
C15_Witness ==
    /\ inflight # Nothing
    /\ call.handle.type = "resource"
    /\ call.handle.pathPrefix # <<>>
    /\ call.c.op = "update"
    /\ call.c.a1 = Obj([kind |-> Text(<<"N">>), metadata |-> Obj([labels |-> Text(<<"l">>)])])
    /\ inflight.options.body.fields.metadata.fields.name = Text(<<"m">>)

\* C16: patch(body, contentType, query) issues a PATCH whose content-type
\* header is contentType when a string is given and the strategic merge
\* patch type when it is omitted; a mapping given in place of contentType is
\* the query of the request, with the default content type; the headers of the
\* request are this one header whatever options() merged into the handle.
C16_PatchContentType ==
    (inflight # Nothing /\ call.c.op = "patch") =>
        LET c == call.c
            expected == IF c.a2.t = "string" THEN c.a2.text ELSE StrategicMergePatch
        IN  /\ inflight.options.method = "PATCH"
            /\ inflight.options.headers = ("content-type" :> expected)
            /\ c.a2.t = "undefined" => expected = "application/strategic-merge-patch+json"
            /\ inflight.options.qs = IF c.a2.t = "object" THEN c.a2.fields ELSE OrEmpty(c.a3)
            /\ inflight.options.body = c.a1

\* C16 witness: patch(body, query) on a handle whose options name a header
C16_Witness ==
    /\ inflight # Nothing
    /\ call.c.op = "patch"
    /\ call.c.a2.t = "object"
    /\ "headers" \in DOMAIN call.handle.extraOptions
    /\ inflight.options.headers["content-type"] = StrategicMergePatch
    /\ inflight.options.qs = call.c.a2.fields

\* a merged with b, b winning per key
MergedOptions(a, b) ==
    [k \in (DOMAIN a) \cup (DOMAIN b) |-> IF k \in DOMAIN b THEN b[k] ELSE a[k]]

\* C17: for the handle h and the operation of the call that is in flight and
\* all option mappings a and b, the operation called on h.options(a).options(b)
\* issues the request (url, transport options, response mode) it issues when
\* called on h.options(a merged with b); called on h.options({}) it issues
\* the request that is in flight.
C17_OptionsAdditive ==
    inflight # Nothing =>
        LET h == call.handle
            c == call.c
        IN  /\ \A a, b \in OptionSets :
                Issue(config, Operation(HandleOptions(HandleOptions(h, a), b), c))
                    = Issue(config, Operation(HandleOptions(h, MergedOptions(a, b)), c))
            /\ Issue(config, Operation(HandleOptions(h, EmptyObject), c)) = inflight
            /\ HandleOptions(h, EmptyObject) = h

\* C17 witness: an operation in flight on a handle that two options() calls
\* with different keys made
C17_Witness ==
    /\ inflight # Nothing
    /\ optionCalls = 2
    /\ DOMAIN call.handle.extraOptions = {"rawResponse", "method", "json", "headers"}
    /\ ~inflight.cooked

----------------------------------------------------------------------------
(* calculateApiName called on its own *)

MaxNameLen == 3     \* characters of a groupName given to calculateApiName

GroupNameArguments == SeqsUpTo({"g", SLASH, "v"}, MaxNameLen)
VersionNameArguments == {Undefined, Text(<<>>), Text(<<"v">>), Text(<<"v", "2">>)}

ResolveInit ==
    /\ WatchIdle /\ RequestIdle /\ BuildIdle /\ ConnectIdle /\ StreamsIdle

\* calculateApiName(groupName, versionName) is called
Calculate ==
    /\ pc = "Disconnected"
    /\ \E groupName \in GroupNameArguments, versionName \in VersionNameArguments :
        lookup' = [groupName |-> groupName, versionName |-> versionName,
                   apiName |-> CalculateApiName(groupName, versionName)]
    /\ UNCHANGED <<config, pc, issued, rootResponse, builds, connectPromise, notConnectVars>>

ResolveNext == Calculate

SpecResolve == ResolveInit /\ [][ResolveNext]_vars

\* the reference rule of the resolver
HasSeparator(name) == \E i \in 1..Len(name) : name[i] = SLASH
BeforeSeparator(name) ==
    SubSeq(name, 1, (CHOOSE i \in 1..Len(name) :
                        name[i] = SLASH /\ \A j \in 1..(i - 1) : name[j] # SLASH) - 1)
VersionGiven(versionName) == versionName # Undefined /\ versionName.text # <<>>
ReferenceApiName(groupName, versionName) ==
    IF ~HasSeparator(groupName)
    THEN CASE groupName # <<>> /\ VersionGiven(versionName) ->
                  groupName \o <<SLASH>> \o versionName.text
           [] groupName # <<>> /\ ~VersionGiven(versionName) -> groupName
           [] groupName = <<>> /\ VersionGiven(versionName) -> versionName.text
           [] OTHER -> <<>>
    ELSE IF VersionGiven(versionName)
         THEN BeforeSeparator(groupName) \o <<SLASH>> \o versionName.text
         ELSE groupName

\* C18: calculateApiName(groupName, versionName) is the name the reference
\* rule gives, for every groupName of up to MaxNameLen characters and every
\* versionName that is absent, empty or given.
C18_ApiNameResolution ==
    lookup # Nothing =>
        lookup.apiName = ReferenceApiName(lookup.groupName, lookup.versionName)

\* C18 witness: a groupName that names a version and a versionName that
\* overrides it
C18_Witness ==
    /\ lookup # Nothing
    /\ lookup.groupName = <<"g", SLASH, "v">>
    /\ lookup.versionName = Text(<<"v", "2">>)
    /\ lookup.apiName = <<"g", SLASH, "v", "2">>

\* C19: after a successful connect, every collection handle and singleton
\* factory of the surface group('', coreVersion) returns, and its ns, is a
\* property of the client under the same key and behaves the same; the client
\* has no property 'name'.
C19_CoreSurfaceOnClient ==
    pc = "Ready" =>
        LET client == connectPromise.value
            core == Group(client, <<>>, Text(CoreVersion(config))).api
        IN  /\ \A k \in DOMAIN core.members :
                core.members[k].member \in {"collection", "factory", "ns"} =>
                    /\ k \in DOMAIN client.members
                    /\ client.members[k] = core.members[k]
            /\ \A x \in Namespaces : Ns(client.core, x) = Ns(core, x)
            /\ NameKey \notin DOMAIN client.members

\* C19 witness: the client of a connect with the core version configured
\* holds the collection handle and the factory of a core resource, and ns
\* gives those of a namespaced one
C19_Witness ==
    /\ pc = "Ready"
    /\ "version" \in DOMAIN config
    /\ connectPromise.value.members[<<"p">>].member = "collection"
    /\ connectPromise.value.members[<<"s">>].member = "factory"
    /\ connectPromise.value.members[<<"p">>].of.groupPath = ApiPath \o <<SLASH>> \o V2
    /\ DOMAIN Ns(connectPromise.value.core, <<"x">>) = {<<"n">>, <<"k">>}

\* the configuration names a token (an empty one counts as none)
TokenConfigured == "token" \in DOMAIN config /\ config.token # ""

\* the request carries the bearer credential made of the configured token
CarriesToken(request) ==
    /\ "auth" \in DOMAIN request.options
    /\ request.options.auth = [bearer |-> config.token]

\* C20 as stated: with a token configured every request of the client, those
\* of connect and those of every operation and watch, carries auth.bearer
\* equal to the token; with none configured no request carries a bearer
\* credential.
C20_BearerOnEveryRequest ==
    /\ inflight # Nothing =>
          IF TokenConfigured THEN CarriesToken(inflight)
          ELSE ~("auth" \in DOMAIN inflight.options
                   /\ "bearer" \in DOMAIN inflight.options.auth)
    /\ \A i \in 1..Len(issued) :
          IF TokenConfigured THEN CarriesToken(issued[i])
          ELSE "auth" \notin DOMAIN issued[i].options

\* C20 as amended: a request of an operation carries the auth that options()
\* merged into its handle when there is one; every other request carries
\* auth.bearer equal to the token when a token is configured, and no auth
\* when none is.
C20_BearerUnlessOverridden ==
    /\ inflight # Nothing =>
          IF "auth" \in DOMAIN call.handle.extraOptions
          THEN inflight.options.auth = call.handle.extraOptions.auth
          ELSE IF TokenConfigured THEN CarriesToken(inflight)
          ELSE "auth" \notin DOMAIN inflight.options
    /\ \A i \in 1..Len(issued) :
          IF TokenConfigured THEN CarriesToken(issued[i])
          ELSE "auth" \notin DOMAIN issued[i].options

\* C20 witness: a watch request of a client with a token, on a handle whose
\* options name no auth
C20_Witness ==
    /\ inflight # Nothing
    /\ inflight.stream
    /\ optionCalls >= 1
    /\ "auth" \notin DOMAIN call.handle.extraOptions
    /\ TokenConfigured
    /\ inflight.options.auth.bearer = "secret"

----------------------------------------------------------------------------
(* Further claims about the watch decoder *)

\* buffer[0..bufferLength)
ResidualBuffer == Slice(buffer, 0, bufferLength)

\* the stream fed before the last chunk
FedBefore == Concat(SubSeq(chunks, 1, Len(chunks) - 1))

\* C21: while the decoder has not failed and the stream has not ended, the
\* residual buffer holds no newline and is the bytes of the stream after its
\* last newline (all of it if there is none); a last chunk without newline,
\* an empty one included, has pushed no event and was appended to the
\* residual, and a last chunk that ends on a newline leaves the residual empty.
C21_BufferInvariant ==
    (wstatus = "open" /\ ~inputEnded) =>
        /\ bufferLength <= Len(buffer)
        /\ \A i \in 1..Len(ResidualBuffer) : ResidualBuffer[i] # NL
        /\ ResidualBuffer = Residual(Fed)
        /\ chunks # <<>> =>
            LET last == chunks[Len(chunks)]
            IN  /\ IndexOfFrom(last, NL, 0) = -1 =>
                    /\ \A k \in 1..Len(pushed) : pushed[k].chunk # Len(chunks)
                    /\ ResidualBuffer = Residual(FedBefore) \o last
                /\ (last # <<>> /\ last[Len(last)] = NL) => bufferLength = 0

\* C21 witness: a line was emitted out of a buffer that then was reused for a
\* shorter rest, and an empty chunk followed
C21_Witness ==
    /\ wstatus = "open"
    /\ ~inputEnded
    /\ Len(chunks) = 3
    /\ chunks[3] = <<>>
    /\ Len(pushed) = 1
    /\ 0 < bufferLength
    /\ bufferLength < Len(buffer)

----------------------------------------------------------------------------
(* Further claims about connect *)

\* connect has delivered its outcome to the caller
Notified == pc \in {"Ready", "Failed"}

\* C22 as stated: once the builds have been started, connect delivers its
\* outcome only after every build has finished; no build is in flight when
\* the caller has been notified.
C22_OutcomeAfterAllBuilds ==
    Notified => \A i \in 1..Len(builds) : builds[i].state # "inflight"

\* C22 as amended: a client is delivered only after every build has
\* succeeded; a failure of the builds is delivered when the first build has
\* failed, whatever the other builds are doing; as long as no build has failed
\* and one is in flight nothing is delivered.
C22_ClientAfterAllBuilds ==
    /\ pc = "Ready" =>
          /\ builds # <<>>
          /\ \A i \in 1..Len(builds) : builds[i].state = "built"
    /\ (pc = "Failed" /\ Succeeded(rootResponse)) =>
          \E i \in 1..Len(builds) :
              /\ builds[i].state = "failed"
              /\ connectPromise \in {Settle(r, TRUE) :
                                        r \in BuildResponses(builds[i].apiName,
                                                             builds[i].version.version)}
    /\ pc = "BuildingSurfaces" =>
          /\ connectPromise = Pending
          /\ \A i \in 1..Len(builds) : builds[i].state # "failed"
          /\ \E i \in 1..Len(builds) : builds[i].state \in {"inflight", "stuck"}

\* C22 witness: connect has failed with the Status of one build while two
\* other builds are in flight
C22_Witness ==
    /\ pc = "Failed"
    /\ connectPromise.state = "rejected"
    /\ connectPromise.value.t = "object"
    /\ Cardinality({i \in 1..Len(builds) : builds[i].state = "inflight"}) = 2
    /\ Cardinality({i \in 1..Len(builds) : builds[i].state = "failed"}) = 1

\* the keys the registry of a catalog holds: group/version for every pair,
\* the bare name of every group, and version and '' for the core group
ExpectedRegistryKeys ==
    {gv[1] \o <<SLASH>> \o gv[2] : gv \in CatalogGroupVersions}
    \cup {Catalog[i].name : i \in 1..Len(Catalog)}
    \cup {CoreVersion(config), <<>>}

\* the (group, version) whose surface a key of the registry stands for
ExpectedGroupVersion(key) ==
    IF key \in {CoreVersion(config), <<>>} THEN <<<<>>, CoreVersion(config)>>
    ELSE IF \E i \in 1..Len(Catalog) : Catalog[i].name = key
    THEN LET group == CHOOSE gr \in {Catalog[i] : i \in 1..Len(Catalog)} : gr.name = key
         IN  <<key, group.preferredVersion.version>>
    ELSE CHOOSE gv \in CatalogGroupVersions : key = gv[1] \o <<SLASH>> \o gv[2]

\* C23: in whatever order the responses of the builds arrived, once all have
\* succeeded the registry holds exactly the keys the catalog calls for, each
\* with the surface built for its group-version from that group-version's
\* own response, and the client is made of the core surface; before that the
\* caller holds no registry.
C23_CompletionOrderIndependence ==
    /\ pc # "Ready" => ~IsClient(connectPromise)
                       /\ (pc # "Disconnected" => ~IsClient(connectPromise.value))
    /\ pc = "Ready" =>
          LET client == connectPromise.value
          IN  /\ DOMAIN client.apis = ExpectedRegistryKeys
              /\ \A key \in DOMAIN client.apis :
                    LET gv == ExpectedGroupVersion(key)
                        b == BuildOf(gv[1], gv[2])
                    IN  /\ client.apis[key] = b.api
                        /\ b.api.members[NameKey].of = gv[1]
                        /\ b.api.members[VersionKey].of = gv[2]
                        /\ b.api.resources = b.response.data.fields.resources
                        /\ b.api.resources = ServerResources(gv[1], gv[2])
              /\ client.core = BuildOf(<<>>, CoreVersion(config)).api

\* C23 witness: five builds, of two groups in two versions each and of the
\* core group, have all succeeded
C23_Witness ==
    /\ pc = "Ready"
    /\ Len(builds) = 5
    /\ Cardinality(DOMAIN connectPromise.value.apis) = 8

\* the requests issued so far for the path
IssuedFor(path) ==
    {i \in 1..Len(issued) : issued[i].url = UrlResolve(ConfigOptions(config).url, path)}

\* C24: a connect issues exactly one request for 'apis'; it issues no other
\* request before the response to it has arrived, and none if that response
\* is a failure; after a catalog has arrived it has issued exactly one
\* request for 'apis/<groupVersion>' of every (group, version) of the
\* catalog and exactly one for 'api/<coreVersion>', and no other.
C24_DiscoveryRequestProtocol ==
    pc # "Disconnected" =>
        /\ IssuedFor(ApisPath) = {1}
        /\ ~Succeeded(rootResponse) => Len(issued) = 1
        /\ Succeeded(rootResponse) =>
            /\ Len(issued) = 2 + Cardinality(CatalogGroupVersions)
            /\ \A gv \in CatalogGroupVersions :
                  Cardinality(IssuedFor(ApisPath \o <<SLASH>> \o gv[1] \o <<SLASH>> \o gv[2])) = 1
            /\ Cardinality(IssuedFor(ApiPath \o <<SLASH>> \o CoreVersion(config))) = 1
            /\ \A i \in 1..Len(issued) : issued[i].options.json = TRUE /\ ~issued[i].stream

\* C24 witness: the catalog of two groups in two versions each has arrived
\* and the six requests are out, none of the builds answered yet
C24_Witness ==
    /\ pc = "BuildingSurfaces"
    /\ Len(issued) = 6
    /\ \A i \in 1..Len(builds) : builds[i].state = "inflight"

\* every request connect has issued has been answered
AllAnswered ==
    /\ pc # "Disconnected"
    /\ rootResponse # Nothing
    /\ \A i \in 1..Len(builds) : builds[i].state # "inflight"

\* C25: once every request of a connect has received its response or error,
\* the connect is in Ready or in Failed; in Ready it has delivered a client
\* and has come through the catalog and the builds, in Failed it has
\* delivered an error.
C25_ConnectTerminates ==
    /\ AllAnswered => Notified
    /\ pc = "Ready" =>
          /\ connectPromise.state = "resolved"
          /\ Succeeded(rootResponse)
          /\ builds # <<>>
    /\ pc = "Failed" => connectPromise.state = "rejected"

\* C26: once built, a surface and the descriptors it was built from are the
\* same after every ns(namespace) and resource(kind) call, and the registry
\* and the client are the same after every group lookup, failed ones
\* included; ns(x) returns what it returned before for x, a mapping that is
\* no part of the surface.
C26_RegistryWriteOnce ==
    [][/\ surface # Nothing =>
            /\ surface' = surface
            /\ apiResources' = apiResources
            /\ \A x \in Namespaces :
                  /\ Ns(surface', x) = Ns(surface, x)
                  /\ (nsResult' # Nothing /\ nsResult'.namespace = x) =>
                        nsResult'.result = Ns(surface, x)
            /\ \A kind \in ResourceKinds :
                  ResourceOfKind(surface', kind) = ResourceOfKind(surface, kind)
       /\ pc = "Ready" =>
            /\ pc' = "Ready"
            /\ connectPromise' = connectPromise
            /\ builds' = builds]_vars

\* C26 witness: ns and resource have both been called on a surface with a
\* namespaced resource
C26_Witness ==
    /\ surface # Nothing
    /\ surface.nsResources # <<>>
    /\ nsResult # Nothing
    /\ nsResult.result # EmptyObject
    /\ resourceResult # Nothing
    /\ resourceResult.result # Nothing

IsSubResource(resource) == \E i \in 1..Len(resource.name) : resource.name[i] = SLASH

WithoutSubResources(resources) ==
    SelectSeq(resources, LAMBDA resource : ~IsSubResource(resource))

\* the surface of the group-version of SpecBuild for a list of descriptors
SurfaceFor(resources) ==
    CreateApiFromResources(GroupG, GroupGPath,
                           [groupVersion |-> GroupG \o <<SLASH>> \o V1, version |-> V1],
                           TRUE, resources)

HasSeparatorKey(object) == \E key \in DOMAIN object : \E i \in 1..Len(key) : key[i] = SLASH

\* C27: a built surface has the members and the namespaced descriptors of
\* the surface built from the same list without its sub-resources, ns(x)
\* returns the same mapping for both, and no key of the surface or of ns(x)
\* contains the separator.
C27_SubResourcesNeverExposed ==
    surface # Nothing =>
        LET plain == SurfaceFor(WithoutSubResources(apiResources))
        IN  /\ surface.members = plain.members
            /\ surface.nsResources = plain.nsResources
            /\ ~HasSeparatorKey(surface.members)
            /\ \A x \in Namespaces :
                  /\ Ns(surface, x) = Ns(plain, x)
                  /\ ~HasSeparatorKey(Ns(surface, x))
            /\ nsResult # Nothing =>
                  nsResult.result = Ns(plain, nsResult.namespace)

\* C27 witness: a namespaced sub-resource precedes a namespaced resource of
\* another kind in the list, and ns has been called
C27_Witness ==
    /\ surface # Nothing
    /\ Len(apiResources) = 2
    /\ IsSubResource(apiResources[1])
    /\ apiResources[1].namespaced
    /\ apiResources[1].kind = <<"K">>
    /\ ~IsSubResource(apiResources[2])
    /\ apiResources[2].namespaced
    /\ apiResources[2].kind = <<"S">>
    /\ nsResult # Nothing
    /\ DOMAIN nsResult.result = {<<"n">>, <<"s">>}

----------------------------------------------------------------------------
(* Several watch streams at once *)

\* one binding of buffer and bufferLength shared by all calls of watch
BufferBindingShared(stream) == 1

\* let buffer / let bufferLength in the body of watch: every call of watch
\* creates a binding of its own, which its parseJSONStream closes over.
BufferBinding(stream) == stream

\* the chunks a transport writes
WatchChunks == {<<"1">>, <<"1", NL>>, <<NL>>, <<Garbage, NL>>, <<"1", NL, "1">>}

WritesSoFar(ss, n) == Len(Concat([i \in 1..n |-> ss[i].chunks]))

\* the decoder state the closures of one watch() call work on
StreamDecoder(stream) ==
    [buffer |-> buffers[BufferBinding(stream)].buffer,
     bufferLength |-> buffers[BufferBinding(stream)].bufferLength,
     pushed |-> streams[stream].pushed,
     status |-> streams[stream].status]

SetStreamDecoder(stream, d, written, ended) ==
    /\ streams' = [streams EXCEPT ![stream] =
                      [chunks |-> written, pushed |-> d.pushed,
                       status |-> d.status, inputEnded |-> ended]]
    /\ buffers' = [buffers EXCEPT ![BufferBinding(stream)] =
                      [buffer |-> d.buffer, bufferLength |-> d.bufferLength]]

StreamsInit ==
    /\ streams = <<>>
    /\ buffers = <<>>
    /\ WatchIdle /\ RequestIdle /\ BuildIdle /\ ConnectIdle

\* collection.watch() is called once more
CallWatch ==
    /\ Len(streams) < MaxStreams
    /\ LET stream == Len(streams) + 1
       IN  /\ streams' = Append(streams, [chunks |-> <<>>, pushed |-> NewDecoder.pushed,
                                          status |-> NewDecoder.status,
                                          inputEnded |-> FALSE])
           /\ buffers' = (BufferBinding(stream) :>
                             [buffer |-> NewDecoder.buffer,
                              bufferLength |-> NewDecoder.bufferLength]) @@ buffers
    /\ UNCHANGED notStreamVars

\* the transport of one of the streams writes a chunk
StreamWrite ==
    \E stream \in 1..Len(streams) :
        /\ ~streams[stream].inputEnded
        /\ streams[stream].status = "open"
        /\ WritesSoFar(streams, Len(streams)) < MaxWrites
        /\ \E chunk \in WatchChunks :
            LET written == Append(streams[stream].chunks, chunk)
            IN  SetStreamDecoder(stream,
                                 Transform(StreamDecoder(stream), chunk, Len(written)),
                                 written, FALSE)
        /\ UNCHANGED notStreamVars

\* a chunk written to a stream whose JSON.parse threw: transform is not called
StreamWriteAfterFailure ==
    \E stream \in 1..Len(streams) :
        /\ ~streams[stream].inputEnded
        /\ streams[stream].status = "failed"
        /\ WritesSoFar(streams, Len(streams)) < MaxWrites
        /\ \E chunk \in WatchChunks :
            streams' = [streams EXCEPT ![stream].chunks = Append(@, chunk)]
        /\ UNCHANGED <<buffers, notStreamVars>>

\* the transport of one of the streams ends it
StreamEnd ==
    \E stream \in 1..Len(streams) :
        /\ ~streams[stream].inputEnded
        /\ streams[stream].status = "open"
        /\ SetStreamDecoder(stream, Flush(StreamDecoder(stream)),
                            streams[stream].chunks, TRUE)
        /\ UNCHANGED notStreamVars

\* the transport ends a stream whose decoder has failed: flush is never run
StreamEndAfterFailure ==
    \E stream \in 1..Len(streams) :
        /\ ~streams[stream].inputEnded
        /\ streams[stream].status = "failed"
        /\ streams' = [streams EXCEPT ![stream].inputEnded = TRUE]
        /\ UNCHANGED <<buffers, notStreamVars>>

StreamsNext ==
    CallWatch \/ StreamWrite \/ StreamWriteAfterFailure \/ StreamEnd \/ StreamEndAfterFailure

SpecStreams == StreamsInit /\ [][StreamsNext]_vars

\* what a decoder that is the only one has pushed, and its status, after the
\* first n of the chunks
RECURSIVE Alone(_, _)
Alone(written, n) ==
    IF n = 0 THEN NewDecoder
    ELSE LET before == Alone(written, n - 1)
         IN  IF before.status = "open" THEN Transform(before, written[n], n) ELSE before

AloneEnded(written) ==
    LET d == Alone(written, Len(written))
    IN  IF d.status = "open" THEN Flush(d) ELSE d

\* C28: whatever the interleaving of the writes and ends of the open watch
\* streams, each stream has pushed the items, and has the status, of a
\* decoder that was fed its chunks alone.
C28_StreamsIsolated ==
    \A stream \in 1..Len(streams) :
        LET alone == IF streams[stream].inputEnded
                     THEN AloneEnded(streams[stream].chunks)
                     ELSE Alone(streams[stream].chunks, Len(streams[stream].chunks))
        IN  /\ streams[stream].pushed = alone.pushed
            /\ streams[stream].status = alone.status

\* C28 witness: the first stream got a line in two chunks and the second
\* stream has failed on its second chunk and was ended
C28_Witness ==
    /\ Len(streams) = 2
    /\ streams[1].chunks = <<<<"1">>, <<"1", NL>>>>
    /\ Len(streams[1].pushed) = 1
    /\ streams[1].pushed[1].value = 11
    /\ streams[2].chunks = <<<<"1">>, <<Garbage, NL>>>>
    /\ streams[2].status = "failed"
    /\ streams[2].inputEnded

\* C29: Status translation is total.  Whenever the transport answered an
\* operation without a transport error, whatever the status code, the body
\* and the mode, the promise is settled: resolved with the body, or rejected
\* with a failure value; on a handle without rawResponse a structured body
\* that is no Status with status Failure is resolved unchanged.
C29_StatusTranslationTotal ==
    Answered =>
        /\ promise.state \in {"resolved", "rejected"}
        /\ ~promise.threw
        /\ promise.state = "resolved" => promise.value = response.data
        /\ promise.state = "rejected" => promise.value.t = "object"
        /\ (~RawResponseSet(call.handle) /\ response.data.t = "object"
                /\ ~IsStatusFailure(response.data)) =>
              promise = Resolved(response.data)

\* the members a surface has before its resources are attached
ReservedKeys == {NsKey, ResourceKey, NameKey, VersionKey, PreferredKey}

BuiltIn(object, key, what) == key \in DOMAIN object /\ object[key].member = what

\* C30: reserved members survive the build.  After the build of a surface its
\* ns, resource, name, version and preferred are the members the api object
\* had before the resources were attached, whatever the names and kinds of
\* the descriptors; the group of a client is its group operation.
C30_ReservedMembersSurvive ==
    /\ surface # Nothing =>
          /\ BuiltIn(surface.members, NsKey, "ns")
          /\ BuiltIn(surface.members, ResourceKey, "resource")
          /\ BuiltIn(surface.members, NameKey, "name")
          /\ BuiltIn(surface.members, VersionKey, "version")
          /\ BuiltIn(surface.members, PreferredKey, "preferred")
          /\ \A key \in ReservedKeys :
                surface.members[key] = SurfaceFor(<<>>).members[key]
    /\ pc = "Ready" => BuiltIn(connectPromise.value.members, GroupKey, "group")

\* calculateApiName was called with a groupName that names a version and
\* with a version of its own
EmbeddedAndGiven ==
    /\ lookup # Nothing
    /\ HasSeparator(lookup.groupName)
    /\ VersionGiven(lookup.versionName)

\* C31, as stated: for every group name g without a separator, the empty
\* name of the core group included, every embedded version e and every
\* non-empty version v, calculateApiName(g + '/' + e, v) is
\* calculateApiName(g, v).
C31_EmbeddedVersionIrrelevant ==
    EmbeddedAndGiven =>
        lookup.apiName =
            CalculateApiName(BeforeSeparator(lookup.groupName), lookup.versionName)

\* C31, amended: the same for every non-empty group name g; for the empty
\* group name calculateApiName('/' + e, v) is '/' + v whatever e is, which
\* is not calculateApiName('', v) = v.
C31_EmbeddedVersionIrrelevantForNamedGroups ==
    EmbeddedAndGiven =>
        LET g == BeforeSeparator(lookup.groupName)
            v == lookup.versionName
        IN  /\ g # <<>> => lookup.apiName = CalculateApiName(g, v)
            /\ g = <<>> =>
                  /\ lookup.apiName = <<SLASH>> \o v.text
                  /\ lookup.apiName # CalculateApiName(g, v)
                  /\ CalculateApiName(g, v) = v.text

\* C31 witness: the groupName g/g, asked for in version v2, resolves to g/v2
\* as g alone does
C31_Witness ==
    /\ EmbeddedAndGiven
    /\ lookup.groupName = <<"g", SLASH, "g">>
    /\ lookup.versionName = Text(<<"v", "2">>)
    /\ lookup.apiName = <<"g", SLASH, "v", "2">>
    /\ lookup.apiName = CalculateApiName(<<"g">>, lookup.versionName)

====
